---- MODULE Spec2Model ----
(***************************************************************************)
(* Verification model of the n8n OpenTelemetry interception layer          *)
(* (tracing/tracing.js), of the Langfuse observation-type mapper           *)
(* (langfuse-type-mapper.js) and of the execute loop of the document node  *)
(* (LimescapeDocs).                                                        *)
(*                                                                         *)
(* Several state machines share the module:                                *)
(*   Spec         - the two wrappers patched onto WorkflowExecute          *)
(*                  (processRunExecutionData, runNode), their spans and    *)
(*                  the active-span context each call inherits;            *)
(*   SpecGuard    - the module top level: the ALREADY_INITIALIZED guard    *)
(*                  and initializeTracing, over several processes;         *)
(*   SpecClassify - mapNodeToObservationType applied to bounded inputs;    *)
(*   SpecRename   - the rename of the HTTP root span on workflow entry;     *)
(*   SpecUncaught - the uncaughtException handler;                         *)
(*   SpecDocs     - the execute loop of the document node;                 *)
(* and one specification per helper function of tracing.js, which applies  *)
(* the function to inputs drawn from a bounded set.                        *)
(***************************************************************************)
EXTENDS Integers, Sequences, FiniteSets, TLC

VARIABLES
  calls,      \* wrapper calls made so far, in call order (one record per call)
  spans,      \* spans opened by the wrappers, in opening order
  procs,      \* per process: the three init markers and what module loads did
  clsIn,      \* classifier input: [type, category]
  clsOut,     \* classifier output, "pending" until the call is made
  fnIn,       \* arguments (and configuration) of a helper function, a handler
              \* or a run of the document node
  fnOut       \* what the calls returned so far (<<>> before the first), or
              \* the record of the handler or run in progress

wrapVars  == <<calls, spans>>
guardVars == <<procs>>
clsVars   == <<clsIn, clsOut>>
fnVars    == <<fnIn, fnOut>>
vars      == <<calls, spans, procs, clsIn, clsOut, fnIn, fnOut>>

(***************************************************************************)
(* Bounds                                                                  *)
(***************************************************************************)
MaxCalls     == 2   \* wrapper calls per behaviour of Spec
MaxConcCalls == 3   \* wrapper calls per behaviour of SpecConc
MaxExtraArgs == 1   \* arguments given beyond the wrapper's named parameters
MaxProcs     == 2   \* processes per behaviour of SpecGuard
MaxLoads     == 3   \* loads of tracing.js per process
MaxEntries   == 2   \* workflow runs entered under one active span
MaxOpenSpans == 2   \* spans open when an uncaught exception is raised
MaxItems     == 2   \* input items of one run of the document node

(***************************************************************************)
(* The wrappers of WorkflowExecute (tracing.js:436-757)                    *)
(*                                                                         *)
(* A call record:                                                          *)
(*   kind      "wf" (processRunExecutionData) or "task" (runNode)          *)
(*   inv       the call whose original method made this call, 0 = the host *)
(*   exec      the workflow call (execution) this call belongs to          *)
(*   ctx       the span active when the wrapper was entered, 0 = none      *)
(*   thisDef   whether `this` is defined                                   *)
(*   given     the arguments the wrapper was called with (identities 1..n) *)
(*   fault     the instrumentation step that throws on this call's input   *)
(*   phase     "pending"  the original's promise is pending                *)
(*             "settled"  it settled, the wrapper's continuation has not   *)
(*                        run yet                                          *)
(*             "done"     the wrapper has nothing left to run              *)
(*   span      the span the wrapper opened, 0 = none                       *)
(*   actx      the span active while the original runs                     *)
(*   origCalls how many times the original method was invoked              *)
(*   recv      the receiver handed to the original ("this" | "none")       *)
(*   passed    the arguments handed to the original (0 = undefined)        *)
(*   orig      what the original did: "none" (never invoked) | "threw" |   *)
(*             "pending" | "ok" | "okErr" (resolved, result carries        *)
(*             data.resultData.error) | "rejected"                         *)
(*   ret       the object returned to the caller                           *)
(*   caller    what the caller has observed                                *)
(* A span record: kind, call, parent (0 = root), ends (number of end()     *)
(* calls), status ("unset" | "error"), exc (exceptions recorded).          *)
(*                                                                         *)
(* Span methods of @opentelemetry/api (setAttribute, setStatus,            *)
(* recordException, end) do not throw; the steps that can throw are the    *)
(* ones tracing.js computes itself or delegates to `flat`, JSON and the    *)
(* type mapper.                                                            *)
(***************************************************************************)
WfNamedParams   == 1
TaskNamedParams == 7

WfFaults   == {"none", "flatten", "name", "capture"}
TaskFaults == {"none", "flatten", "serialize", "classify", "capture"}

Args(n) == [i \in 1..n |-> i]

\* The inputs a wrapper call is made with: the plain call, or a call that departs
\* from it in one respect (extra arguments, an undefined `this`, or a value on
\* which one instrumentation step throws).
WfInputs ==
  {[thisDef |-> TRUE, extra |-> k, fault |-> "none"] : k \in 0..MaxExtraArgs}
  \cup {[thisDef |-> TRUE, extra |-> 0, fault |-> f] : f \in WfFaults}

TaskInputs ==
  {[thisDef |-> TRUE, extra |-> k, fault |-> "none"] : k \in 0..MaxExtraArgs}
  \cup {[thisDef |-> TRUE, extra |-> 0, fault |-> f] : f \in TaskFaults}
  \cup {[thisDef |-> FALSE, extra |-> 0, fault |-> "none"]}

\* A single process-wide "current span" pointer instead of a per-call context:
\* the span opened last that has not ended yet.
ActiveSpanShared(inv) ==
  LET open == {s \in 1..Len(spans) : spans[s].ends = 0}
  IN IF open = {} THEN 0 ELSE CHOOSE s \in open : \A t \in open : t <= s

\* context.active() as seen by code running inside the original of call inv:
\* the context handed to context.with / startActiveSpan travels with the async
\* chain, so it is the invoking call's own active span.
ActiveSpan(inv) == IF inv = 0 THEN 0 ELSE calls[inv].actx

\* originalProcessRun.apply(this, arguments)
WfPassedArgs(given) == given

\* originalRunNode.apply(this, [workflow, ..., abortSignal])
TaskPassedArgs(given) ==
  [i \in 1..TaskNamedParams |-> IF i <= Len(given) THEN given[i] ELSE 0]

\* the `!this` guard: originalRunNode.apply(this, arguments)
TaskPassedArgsNoThis(given) == given

\* Steps of the workflow wrapper that run before tracer.startSpan outside any
\* try block: flatten(wfData.settings) and buildWorkflowSpanName.
WfFaultEscapes(fault) == fault \in {"flatten", "name"}

\* Steps of the task wrapper that run before tracer.startActiveSpan outside any
\* try block: flatten(node), JSON.stringify(value), mapNodeToObservationType.
TaskFaultEscapes(fault) == fault \in {"flatten", "serialize", "classify"}

\* Returning the promise of the .then(...).finally(...) chain instead.
WfReturnedDerived == "derived"

\* `return cancelable`: the caller gets the original's own promise.
WfReturned == "origPromise"

\* What a caller holding `ret` observes once the original is in state orig and
\* the wrapper's callbacks have (ran = TRUE) or have not yet run.
CallerSees(ret, orig, ran) ==
  CASE ret = "origPromise" ->
         (CASE orig = "ok"       -> "res_ok"
            [] orig = "okErr"    -> "res_okErr"
            [] orig = "rejected" -> "rej_orig"
            [] OTHER             -> "pending")
    [] ret = "derived" -> IF ran THEN "res_undefined" ELSE "pending"
    [] OTHER -> "pending"

NewSpan(kind, c, parent) ==
  [kind |-> kind, call |-> c, parent |-> parent, ends |-> 0,
   status |-> "unset", exc |-> 0]

\* span.recordException(err); span.setStatus({code: ERROR, ...})
RecordError(sp) == [sp EXCEPT !.exc = @ + 1, !.status = "error"]

\* span.end()
EndSpan(sp) == [sp EXCEPT !.ends = @ + 1]

\* The workflow wrapper when the original throws synchronously: the throw leaves
\* context.with and the wrapper; no handler has been attached, nothing ends the span.
WfOnSyncThrow(sp) == sp

\* Callbacks that record a rejection and overlook result.data.resultData.error.
WfOnSettledRejectionOnly(sp, orig) ==
  IF orig = "rejected" THEN RecordError(sp) ELSE sp

\* The .then(onFulfilled, onRejected) callbacks of the workflow wrapper.
WfOnSettled(sp, orig) ==
  IF orig \in {"okErr", "rejected"} THEN RecordError(sp) ELSE sp

\* .finally(() => span.end())
WfFinally(sp) == EndSpan(sp)

\* A catch block that records the exception and forgets setStatus.
TaskCatchNoStatus(sp) == [sp EXCEPT !.exc = @ + 1]

\* catch (error) { recordException; setStatus; setAttribute; throw error }
TaskCatch(sp) == RecordError(sp)

\* what the catch block throws on
TaskRethrown == "rej_orig"

\* finally { nodeSpan.end() }
TaskFinally(sp) == EndSpan(sp)

Running(c) == calls[c].phase = "pending" /\ calls[c].origCalls = 1

ExecOf(inv) == IF calls[inv].kind = "wf" THEN inv ELSE calls[inv].exec

\* WorkflowExecute.prototype.processRunExecutionData = function (workflow) {...}
WfEnter(inv, in, sync) ==
  /\ inv = 0 \/ (inv \in 1..Len(calls) /\ calls[inv].kind = "task" /\ Running(inv))
  /\ LET c     == Len(calls) + 1
         s     == Len(spans) + 1
         ctx   == ActiveSpan(inv)
         given == Args(WfNamedParams + in.extra)
         thisDef == in.thisDef
         fault == in.fault
         base  == [kind |-> "wf", inv |-> inv, exec |-> c, ctx |-> ctx,
                   thisDef |-> thisDef, given |-> given, fault |-> fault,
                   phase |-> "done", span |-> 0, actx |-> ctx, origCalls |-> 0,
                   recv |-> "none", passed |-> <<>>, orig |-> "none",
                   ret |-> "none", caller |-> "threw_instr"]
         invoked == [base EXCEPT !.span = s, !.actx = s, !.origCalls = 1,
                       !.recv = IF thisDef THEN "this" ELSE "none",
                       !.passed = WfPassedArgs(given)]
     IN IF WfFaultEscapes(fault)
        THEN /\ calls' = Append(calls, base)
             /\ spans' = spans
        ELSE IF sync = "throws"
        THEN /\ calls' = Append(calls, [invoked EXCEPT !.orig = "threw",
                                          !.caller = "threw_orig"])
             /\ spans' = Append(spans, WfOnSyncThrow(NewSpan("wf", c, ctx)))
        ELSE /\ calls' = Append(calls, [invoked EXCEPT !.phase = "pending",
                                          !.orig = "pending", !.ret = WfReturned,
                                          !.caller = "pending"])
             /\ spans' = Append(spans, NewSpan("wf", c, ctx))
  /\ UNCHANGED <<guardVars, clsVars, fnVars>>

\* The engine settles the promise the original processRunExecutionData returned.
WfSettle(c, outcome) ==
  /\ c \in 1..Len(calls)
  /\ calls[c].kind = "wf" /\ calls[c].phase = "pending"
  /\ calls' = [calls EXCEPT ![c].phase = "settled", ![c].orig = outcome,
                 ![c].caller = CallerSees(calls[c].ret, outcome, FALSE)]
  /\ UNCHANGED <<spans, guardVars, clsVars, fnVars>>

\* cancelable.then(...).finally(...) run their callbacks. The output capture of
\* the fulfilment callback sits in its own try block (540-549): fault "capture"
\* costs an attribute and changes nothing else.
WfCallbacks(c) ==
  /\ c \in 1..Len(calls)
  /\ calls[c].kind = "wf" /\ calls[c].phase = "settled"
  /\ LET s == calls[c].span
     IN spans' = [spans EXCEPT ![s] = WfFinally(WfOnSettled(@, calls[c].orig))]
  /\ calls' = [calls EXCEPT ![c].phase = "done",
                 ![c].caller = CallerSees(calls[c].ret, calls[c].orig, TRUE)]
  /\ UNCHANGED <<guardVars, clsVars, fnVars>>

\* WorkflowExecute.prototype.runNode = async function (workflow, ..., abortSignal) {...}
\* An async function never throws into its caller: every failure is a rejection
\* of the promise it returned. The input capture (699-710) and the output
\* attributes (722-742) sit in their own try blocks: fault "capture" costs an
\* attribute and changes nothing else.
TaskEnter(inv, in, sync) ==
  /\ inv \in 1..Len(calls) /\ Running(inv)
  /\ LET c     == Len(calls) + 1
         s     == Len(spans) + 1
         ctx   == ActiveSpan(inv)
         given == Args(TaskNamedParams + in.extra)
         thisDef == in.thisDef
         fault == in.fault
         base  == [kind |-> "task", inv |-> inv, exec |-> ExecOf(inv), ctx |-> ctx,
                   thisDef |-> thisDef, given |-> given, fault |-> fault,
                   phase |-> "done", span |-> 0, actx |-> ctx, origCalls |-> 0,
                   recv |-> "none", passed |-> <<>>, orig |-> "none",
                   ret |-> "asyncPromise", caller |-> "rej_instr"]
         bare  == [base EXCEPT !.origCalls = 1, !.passed = TaskPassedArgsNoThis(given)]
         invoked == [base EXCEPT !.span = s, !.actx = s, !.origCalls = 1,
                       !.recv = "this", !.passed = TaskPassedArgs(given)]
     IN IF ~thisDef
        THEN /\ spans' = spans
             /\ calls' = Append(calls,
                  IF sync = "throws"
                  THEN [bare EXCEPT !.orig = "threw", !.caller = "rej_orig"]
                  ELSE [bare EXCEPT !.phase = "pending", !.orig = "pending",
                          !.caller = "pending"])
        ELSE IF TaskFaultEscapes(fault)
        THEN /\ calls' = Append(calls, base)
             /\ spans' = spans
        ELSE IF sync = "throws"
        THEN /\ calls' = Append(calls, [invoked EXCEPT !.orig = "threw",
                                          !.caller = TaskRethrown])
             /\ spans' = Append(spans, TaskFinally(TaskCatch(NewSpan("task", c, ctx))))
        ELSE /\ calls' = Append(calls, [invoked EXCEPT !.phase = "pending",
                                          !.orig = "pending", !.caller = "pending"])
             /\ spans' = Append(spans, NewSpan("task", c, ctx))
  /\ UNCHANGED <<guardVars, clsVars, fnVars>>

\* The engine settles the promise the original runNode returned.
TaskSettle(c, outcome) ==
  /\ c \in 1..Len(calls)
  /\ calls[c].kind = "task" /\ calls[c].phase = "pending"
  /\ calls' = [calls EXCEPT ![c].phase = "settled", ![c].orig = outcome]
  /\ UNCHANGED <<spans, guardVars, clsVars, fnVars>>

\* The async wrapper resumes after `await originalRunNode.apply(...)`.
TaskResume(c) ==
  /\ c \in 1..Len(calls)
  /\ calls[c].kind = "task" /\ calls[c].phase = "settled"
  /\ LET s == calls[c].span
     IN IF s = 0
        THEN /\ spans' = spans
             /\ calls' = [calls EXCEPT ![c].phase = "done",
                            ![c].caller = IF calls[c].orig = "ok" THEN "res_ok"
                                          ELSE "rej_orig"]
        ELSE IF calls[c].orig = "ok"
        THEN /\ spans' = [spans EXCEPT ![s] = TaskFinally(@)]
             /\ calls' = [calls EXCEPT ![c].phase = "done", ![c].caller = "res_ok"]
        ELSE /\ spans' = [spans EXCEPT ![s] = TaskFinally(TaskCatch(@))]
             /\ calls' = [calls EXCEPT ![c].phase = "done", ![c].caller = TaskRethrown]
  /\ UNCHANGED <<guardVars, clsVars, fnVars>>

WrapInit ==
  /\ calls = <<>>
  /\ spans = <<>>

WrapIdle ==
  /\ calls = <<>>
  /\ spans = <<>>

GuardIdle == procs = <<>>

ClsIdle == clsIn = <<>> /\ clsOut = "idle"

FnIdle == fnIn = <<>> /\ fnOut = <<>>

Init == WrapInit /\ GuardIdle /\ ClsIdle /\ FnIdle

\* The wrappers as the engine drives them: at most `limit` wrapper calls, made
\* with inputs of wfIn and taskIn.
Step(limit, wfIn, taskIn) ==
  \/ \E inv \in 0..limit, in \in wfIn, sync \in {"throws", "returns"} :
       Len(calls) < limit /\ WfEnter(inv, in, sync)
  \/ \E c \in 1..limit, outcome \in {"ok", "okErr", "rejected"} : WfSettle(c, outcome)
  \/ \E c \in 1..limit : WfCallbacks(c)
  \/ \E inv \in 1..limit, in \in taskIn, sync \in {"throws", "returns"} :
       Len(calls) < limit /\ TaskEnter(inv, in, sync)
  \/ \E c \in 1..limit, outcome \in {"ok", "rejected"} : TaskSettle(c, outcome)
  \/ \E c \in 1..limit : TaskResume(c)

Next == Step(MaxCalls, WfInputs, TaskInputs)

Spec == Init /\ [][Next]_vars

\* Concurrent executions: more calls in flight, made with the inputs that decide
\* which span is active (the plain call, an undefined `this`, a step that throws
\* before the span is opened).
WfConcInputs == {in \in WfInputs : in.extra = 0 /\ in.fault # "capture"}

TaskConcInputs == {in \in TaskInputs : in.extra = 0 /\ in.fault # "capture"}

NextConc == Step(MaxConcCalls, WfConcInputs, TaskConcInputs)

SpecConc == Init /\ [][NextConc]_vars

(***************************************************************************)
(* Properties of the wrappers                                              *)
(***************************************************************************)
CallIds == 1..Len(calls)
SpanIds == 1..Len(spans)

RECURSIVE IsAncestorOrSelf(_, _)
IsAncestorOrSelf(a, s) ==
  IF s = 0 THEN FALSE
  ELSE IF s = a THEN TRUE
  ELSE IsAncestorOrSelf(a, spans[s].parent)

\* The execution a span belongs to.
ExecOfSpan(s) == calls[spans[s].call].exec

\* C1: every span a wrapper opened is closed exactly once when its call has
\* exited, whether the original resolved, rejected or threw synchronously; so the
\* number of span-open calls equals the number of span-close calls.
C1_SpanClosedOnEveryExit ==
  \A s \in SpanIds :
    /\ spans[s].ends <= 1
    /\ calls[spans[s].call].phase = "done" => spans[s].ends = 1

\* C2: with executions running concurrently and their tasks interleaved, every
\* task span's parent is the root span of the execution that invoked the task or
\* a span descended from that root, and never a span of another execution.
C2_TaskSpanUnderOwnExecution ==
  \A s \in SpanIds :
    spans[s].kind = "task" =>
      LET root == calls[ExecOfSpan(s)].span
      IN /\ root # 0
         /\ IsAncestorOrSelf(root, spans[s].parent)
         /\ ExecOfSpan(spans[s].parent) = ExecOfSpan(s)

\* Two executions are in flight, the later one's root span is the span opened
\* last before a task of the earlier execution opens its span under its own root.
C2_Witness ==
  \E s \in SpanIds, r1 \in SpanIds, r2 \in SpanIds :
    /\ spans[s].kind = "task" /\ spans[r1].kind = "wf" /\ spans[r2].kind = "wf"
    /\ r1 < r2 /\ r2 < s
    /\ spans[r1].parent = 0 /\ spans[r2].parent = 0
    /\ spans[s].parent = r1
    /\ spans[r2].ends = 0
    /\ calls[spans[r2].call].phase = "pending"

C5_InstrumentationFailsOpen ==
  \A c \in CallIds :
    calls[c].fault # "none" =>
      /\ calls[c].origCalls = 1
      /\ calls[c].caller \notin {"threw_instr", "rej_instr"}

\* C6: each wrapper invokes the original exactly once, with the same receiver
\* and with every argument it was called with, in order and unmodified,
\* including arguments beyond its own parameter list.
C6_OriginalInvokedUnchanged ==
  \A c \in CallIds :
    calls[c].fault = "none" =>
      /\ calls[c].origCalls = 1
      /\ calls[c].recv = (IF calls[c].thisDef THEN "this" ELSE "none")
      /\ calls[c].passed = calls[c].given

(***************************************************************************)
(* The module top level of tracing.js (lines 15-34) and initializeTracing  *)
(* (36-268), per process.                                                  *)
(*                                                                         *)
(* A process record:                                                       *)
(*   globalMark  global.__n8nTracingInitialized                            *)
(*   envMark     process.env.__N8N_TRACING_INITIALIZED === 'true'          *)
(*   procMark    process.__n8nOtelSDKStarted                               *)
(*   envAtStart  envMark as the process found it when it started           *)
(*   loads       how many times the module body has run                    *)
(*   inits       how many times initializeTracing has been entered         *)
(*   notices     "Already initialized ... skipping" lines logged           *)
(*   wrappers    layers of wrapping installed on WorkflowExecute.prototype *)
(*   sdkStarts   sdk.start() calls that returned                           *)
(*   handlers    registrations of the uncaughtException handler            *)
(*   threw       loads that ended by throwing into the loader              *)
(* The in-memory marks belong to one process; a forked process starts with *)
(* fresh ones and with a copy of the environment its parent gives it.      *)
(***************************************************************************)
\* What can go wrong inside initializeTracing:
\*   "require"  one of the require() calls of lines 38-58 throws
\*   "n8nCore"  require('n8n-core') throws (inside the try of line 424)
\*   "sdkNew"   setupOpenTelemetryNodeSDK throws (line 254)
\*   "sdkStart" sdk.start() throws (line 256)
InitFailures == {"none", "require", "n8nCore", "sdkNew", "sdkStart"}

NewProc(env) ==
  [globalMark |-> FALSE, envMark |-> env, procMark |-> FALSE, envAtStart |-> env,
   loads |-> 0, inits |-> 0, notices |-> 0, wrappers |-> 0, sdkStarts |-> 0,
   handlers |-> 0, threw |-> 0]

\* A guard that compares the environment marker with the boolean true and so
\* never sees it, and forgets the in-memory marks.
AlreadyInitializedNever(pr) == FALSE

\* const ALREADY_INITIALIZED = global.__n8nTracingInitialized ||
\*   process.env.__N8N_TRACING_INITIALIZED === 'true' || process.__n8nOtelSDKStarted
AlreadyInitialized(pr) == pr.globalMark \/ pr.envMark \/ pr.procMark

\* initializeTracing() with failure `fail`, applied to the process record.
\* setupN8nOpenTelemetry (244) runs before setupWinstonLogger (248),
\* setupOpenTelemetryNodeSDK (254) and sdk.start() (256); only its own body is
\* inside a try block.
InitializeTracing(pr, fail) ==
  LET entered == [pr EXCEPT !.inits = @ + 1]
      patched == IF fail = "n8nCore" THEN entered
                 ELSE [entered EXCEPT !.wrappers = @ + 1]
      logged  == [patched EXCEPT !.handlers = @ + 1]
  IN CASE fail = "require" -> [entered EXCEPT !.threw = @ + 1]
       [] fail \in {"sdkNew", "sdkStart"} -> [logged EXCEPT !.threw = @ + 1]
       [] OTHER -> [logged EXCEPT !.sdkStarts = @ + 1]

\* One execution of the module body in process p.
Load(p, fail) ==
  /\ p \in 1..Len(procs)
  /\ procs[p].loads < MaxLoads
  /\ LET pr == [procs[p] EXCEPT !.loads = @ + 1]
     IN procs' = [procs EXCEPT ![p] =
          IF AlreadyInitialized(pr)
          THEN [pr EXCEPT !.notices = @ + 1]
          ELSE InitializeTracing(
                 [pr EXCEPT !.globalMark = TRUE, !.envMark = TRUE, !.procMark = TRUE],
                 fail)]
  /\ UNCHANGED <<wrapVars, clsVars, fnVars>>

\* Process p forks a worker; the worker gets a copy of p's environment, or a
\* clean one when p passes an explicit env.
Fork(p, inherit) ==
  /\ p \in 1..Len(procs)
  /\ Len(procs) < MaxProcs
  /\ procs' = Append(procs, NewProc(inherit /\ procs[p].envMark))
  /\ UNCHANGED <<wrapVars, clsVars, fnVars>>

GuardInit == procs = <<NewProc(FALSE)>>

InitGuard == WrapIdle /\ GuardInit /\ ClsIdle /\ FnIdle

NextGuard ==
  \/ \E p \in 1..MaxProcs, fail \in InitFailures : Load(p, fail)
  \/ \E p \in 1..MaxProcs, inherit \in BOOLEAN : Fork(p, inherit)

SpecGuard == InitGuard /\ [][NextGuard]_vars

ProcIds == 1..Len(procs)

C8_InitOncePerProcess ==
  \A p \in ProcIds : procs[p].loads >= 1 => procs[p].inits = 1

\* C9: loading the module never throws into the host: a failing setup step is
\* caught and logged and instrumentation is left disabled.
C9_InitNeverThrows ==
  \A p \in ProcIds : procs[p].threw = 0

(***************************************************************************)
(* The observation-type mapper (langfuse-type-mapper.js)                   *)
(*                                                                         *)
(* A string is a sequence of one-character strings. A node type is         *)
(* [isString, chars]: isString is FALSE for undefined and other            *)
(* non-strings. The hints are the two attributes the mapper reads,         *)
(* 'n8n.node.category' and 'n8n.node.category_raw', "undefined" if absent. *)
(***************************************************************************)
UpperChars == <<"A", "B", "C", "D", "E", "F", "G", "H", "I", "J", "K", "L", "M",
                "N", "O", "P", "Q", "R", "S", "T", "U", "V", "W", "X", "Y", "Z">>
LowerChars == <<"a", "b", "c", "d", "e", "f", "g", "h", "i", "j", "k", "l", "m",
                "n", "o", "p", "q", "r", "s", "t", "u", "v", "w", "x", "y", "z">>

LowerCharSet == {LowerChars[i] : i \in 1..Len(LowerChars)}

ToLowerChar(ch) ==
  IF \E i \in 1..Len(UpperChars) : UpperChars[i] = ch
  THEN LowerChars[CHOOSE i \in 1..Len(UpperChars) : UpperChars[i] = ch]
  ELSE ch

\* String.prototype.toLowerCase
ToLowerCase(str) == [i \in 1..Len(str) |-> ToLowerChar(str[i])]

\* an unanchored literal pattern: /sub/.test(str)
Contains(str, sub) ==
  \E i \in 1..(Len(str) - Len(sub) + 1) : SubSeq(str, i, i + Len(sub) - 1) = sub

\* /^lm[a-z]/i on a string
StartsLmLetter(str) ==
  /\ Len(str) >= 3
  /\ ToLowerChar(str[1]) = "l" /\ ToLowerChar(str[2]) = "m"
  /\ ToLowerChar(str[3]) \in LowerCharSet

MinOf(set) == CHOOSE x \in set : \A y \in set : x <= y

OBS_TYPES == {"agent", "tool", "chain", "retriever", "generation", "embedding",
              "evaluator", "guardrail", "event", "span"}

\* EXACT_SETS in declaration order (the order of Object.entries)
EXACT_SETS == <<
  [type |-> "agent", set |-> {
     <<"A", "g", "e", "n", "t">>,
     <<"A", "g", "e", "n", "t", "T", "o", "o", "l">>}],
  [type |-> "generation", set |-> {
     <<"L", "m", "C", "h", "a", "t", "O", "p", "e", "n", "A", "i">>,
     <<"L", "m", "O", "p", "e", "n", "A", "i">>,
     <<"O", "p", "e", "n", "A", "i">>,
     <<"A", "n", "t", "h", "r", "o", "p", "i", "c">>,
     <<"G", "o", "o", "g", "l", "e", "G", "e", "m", "i", "n", "i">>,
     <<"G", "r", "o", "q">>,
     <<"P", "e", "r", "p", "l", "e", "x", "i", "t", "y">>,
     <<"L", "m", "C", "h", "a", "t", "A", "n", "t", "h", "r", "o", "p", "i", "c">>,
     <<"L", "m", "C", "h", "a", "t", "G", "o", "o", "g", "l", "e", "G", "e", "m", "i", "n", "i">>,
     <<"L", "m", "C", "h", "a", "t", "M", "i", "s", "t", "r", "a", "l", "C", "l", "o", "u", "d">>,
     <<"L", "m", "C", "h", "a", "t", "O", "p", "e", "n", "R", "o", "u", "t", "e", "r">>,
     <<"L", "m", "C", "h", "a", "t", "X", "A", "i", "G", "r", "o", "k">>,
     <<"O", "p", "e", "n", "A", "i", "A", "s", "s", "i", "s", "t", "a", "n", "t">>}],
  [type |-> "embedding", set |-> {
     <<"E", "m", "b", "e", "d", "d", "i", "n", "g", "s", "A", "w", "s", "B", "e", "d", "r", "o", "c", "k">>,
     <<"E", "m", "b", "e", "d", "d", "i", "n", "g", "s", "A", "z", "u", "r", "e", "O", "p", "e", "n", "A", "i">>,
     <<"E", "m", "b", "e", "d", "d", "i", "n", "g", "s", "C", "o", "h", "e", "r", "e">>,
     <<"E", "m", "b", "e", "d", "d", "i", "n", "g", "s", "G", "o", "o", "g", "l", "e", "G", "e", "m", "i", "n", "i">>,
     <<"E", "m", "b", "e", "d", "d", "i", "n", "g", "s", "G", "o", "o", "g", "l", "e", "V", "e", "r", "t", "e", "x">>,
     <<"E", "m", "b", "e", "d", "d", "i", "n", "g", "s", "H", "u", "g", "g", "i", "n", "g", "F", "a", "c", "e", "I", "n", "f", "e", "r", "e", "n", "c", "e">>,
     <<"E", "m", "b", "e", "d", "d", "i", "n", "g", "s", "M", "i", "s", "t", "r", "a", "l", "C", "l", "o", "u", "d">>,
     <<"E", "m", "b", "e", "d", "d", "i", "n", "g", "s", "O", "l", "l", "a", "m", "a">>,
     <<"E", "m", "b", "e", "d", "d", "i", "n", "g", "s", "O", "p", "e", "n", "A", "i">>}],
  [type |-> "retriever", set |-> {
     <<"R", "e", "t", "r", "i", "e", "v", "e", "r", "C", "o", "n", "t", "e", "x", "t", "u", "a", "l", "C", "o", "m", "p", "r", "e", "s", "s", "i", "o", "n">>,
     <<"R", "e", "t", "r", "i", "e", "v", "e", "r", "M", "u", "l", "t", "i", "Q", "u", "e", "r", "y">>,
     <<"R", "e", "t", "r", "i", "e", "v", "e", "r", "V", "e", "c", "t", "o", "r", "S", "t", "o", "r", "e">>,
     <<"R", "e", "t", "r", "i", "e", "v", "e", "r", "W", "o", "r", "k", "f", "l", "o", "w">>,
     <<"M", "e", "m", "o", "r", "y", "C", "h", "a", "t", "R", "e", "t", "r", "i", "e", "v", "e", "r">>,
     <<"V", "e", "c", "t", "o", "r", "S", "t", "o", "r", "e", "I", "n", "M", "e", "m", "o", "r", "y">>,
     <<"V", "e", "c", "t", "o", "r", "S", "t", "o", "r", "e", "I", "n", "M", "e", "m", "o", "r", "y", "I", "n", "s", "e", "r", "t">>,
     <<"V", "e", "c", "t", "o", "r", "S", "t", "o", "r", "e", "I", "n", "M", "e", "m", "o", "r", "y", "L", "o", "a", "d">>,
     <<"V", "e", "c", "t", "o", "r", "S", "t", "o", "r", "e", "M", "i", "l", "v", "u", "s">>,
     <<"V", "e", "c", "t", "o", "r", "S", "t", "o", "r", "e", "M", "o", "n", "g", "o", "D", "B", "A", "t", "l", "a", "s">>,
     <<"V", "e", "c", "t", "o", "r", "S", "t", "o", "r", "e", "P", "G", "V", "e", "c", "t", "o", "r">>,
     <<"V", "e", "c", "t", "o", "r", "S", "t", "o", "r", "e", "P", "i", "n", "e", "c", "o", "n", "e">>,
     <<"V", "e", "c", "t", "o", "r", "S", "t", "o", "r", "e", "P", "i", "n", "e", "c", "o", "n", "e", "I", "n", "s", "e", "r", "t">>,
     <<"V", "e", "c", "t", "o", "r", "S", "t", "o", "r", "e", "P", "i", "n", "e", "c", "o", "n", "e", "L", "o", "a", "d">>,
     <<"V", "e", "c", "t", "o", "r", "S", "t", "o", "r", "e", "Q", "d", "r", "a", "n", "t">>,
     <<"V", "e", "c", "t", "o", "r", "S", "t", "o", "r", "e", "S", "u", "p", "a", "b", "a", "s", "e">>,
     <<"V", "e", "c", "t", "o", "r", "S", "t", "o", "r", "e", "S", "u", "p", "a", "b", "a", "s", "e", "I", "n", "s", "e", "r", "t">>,
     <<"V", "e", "c", "t", "o", "r", "S", "t", "o", "r", "e", "S", "u", "p", "a", "b", "a", "s", "e", "L", "o", "a", "d">>,
     <<"V", "e", "c", "t", "o", "r", "S", "t", "o", "r", "e", "W", "e", "a", "v", "i", "a", "t", "e">>,
     <<"V", "e", "c", "t", "o", "r", "S", "t", "o", "r", "e", "Z", "e", "p">>,
     <<"V", "e", "c", "t", "o", "r", "S", "t", "o", "r", "e", "Z", "e", "p", "I", "n", "s", "e", "r", "t">>,
     <<"V", "e", "c", "t", "o", "r", "S", "t", "o", "r", "e", "Z", "e", "p", "L", "o", "a", "d">>}],
  [type |-> "evaluator", set |-> {
     <<"S", "e", "n", "t", "i", "m", "e", "n", "t", "A", "n", "a", "l", "y", "s", "i", "s">>,
     <<"T", "e", "x", "t", "C", "l", "a", "s", "s", "i", "f", "i", "e", "r">>,
     <<"I", "n", "f", "o", "r", "m", "a", "t", "i", "o", "n", "E", "x", "t", "r", "a", "c", "t", "o", "r">>,
     <<"R", "e", "r", "a", "n", "k", "e", "r", "C", "o", "h", "e", "r", "e">>,
     <<"O", "u", "t", "p", "u", "t", "P", "a", "r", "s", "e", "r", "A", "u", "t", "o", "f", "i", "x", "i", "n", "g">>}],
  [type |-> "guardrail", set |-> {
     <<"G", "o", "o", "g", "l", "e", "P", "e", "r", "s", "p", "e", "c", "t", "i", "v", "e">>,
     <<"A", "w", "s", "R", "e", "k", "o", "g", "n", "i", "t", "i", "o", "n">>}],
  [type |-> "chain", set |-> {
     <<"C", "h", "a", "i", "n", "L", "l", "m">>,
     <<"C", "h", "a", "i", "n", "R", "e", "t", "r", "i", "e", "v", "a", "l", "Q", "a">>,
     <<"C", "h", "a", "i", "n", "S", "u", "m", "m", "a", "r", "i", "z", "a", "t", "i", "o", "n">>,
     <<"T", "o", "o", "l", "W", "o", "r", "k", "f", "l", "o", "w">>,
     <<"T", "o", "o", "l", "E", "x", "e", "c", "u", "t", "o", "r">>,
     <<"M", "o", "d", "e", "l", "S", "e", "l", "e", "c", "t", "o", "r">>,
     <<"O", "u", "t", "p", "u", "t", "P", "a", "r", "s", "e", "r", "S", "t", "r", "u", "c", "t", "u", "r", "e", "d">>,
     <<"O", "u", "t", "p", "u", "t", "P", "a", "r", "s", "e", "r", "I", "t", "e", "m", "L", "i", "s", "t">>,
     <<"O", "u", "t", "p", "u", "t", "P", "a", "r", "s", "e", "r", "A", "u", "t", "o", "f", "i", "x", "i", "n", "g">>,
     <<"T", "e", "x", "t", "S", "p", "l", "i", "t", "t", "e", "r", "C", "h", "a", "r", "a", "c", "t", "e", "r", "T", "e", "x", "t", "S", "p", "l", "i", "t", "t", "e", "r">>,
     <<"T", "e", "x", "t", "S", "p", "l", "i", "t", "t", "e", "r", "R", "e", "c", "u", "r", "s", "i", "v", "e", "C", "h", "a", "r", "a", "c", "t", "e", "r", "T", "e", "x", "t", "S", "p", "l", "i", "t", "t", "e", "r">>,
     <<"T", "e", "x", "t", "S", "p", "l", "i", "t", "t", "e", "r", "T", "o", "k", "e", "n", "S", "p", "l", "i", "t", "t", "e", "r">>,
     <<"T", "o", "o", "l", "T", "h", "i", "n", "k">>}]
>>

\* REGEX_RULES in declaration order; alts are the alternatives of the pattern,
\* lmPrefix says whether ^lm[a-z] is one of them. Every pattern but /tool/ has
\* the i flag; all are tested against the lower-cased type.
REGEX_RULES == <<
  [type |-> "agent", lmPrefix |-> FALSE, alts |-> {
     <<"a", "g", "e", "n", "t">>}],
  [type |-> "embedding", lmPrefix |-> FALSE, alts |-> {
     <<"e", "m", "b", "e", "d", "d", "i", "n", "g">>}],
  [type |-> "retriever", lmPrefix |-> FALSE, alts |-> {
     <<"r", "e", "t", "r", "i", "e", "v">>,
     <<"v", "e", "c", "t", "o", "r", "s", "t", "o", "r", "e">>}],
  [type |-> "generation", lmPrefix |-> TRUE, alts |-> {
     <<"l", "m", "c", "h", "a", "t">>,
     <<"c", "h", "a", "t">>,
     <<"o", "p", "e", "n", "a", "i">>,
     <<"a", "n", "t", "h", "r", "o", "p", "i", "c">>,
     <<"g", "e", "m", "i", "n", "i">>,
     <<"m", "i", "s", "t", "r", "a", "l">>,
     <<"g", "r", "o", "q">>,
     <<"c", "o", "h", "e", "r", "e">>}],
  [type |-> "tool", lmPrefix |-> FALSE, alts |-> {
     <<"t", "o", "o", "l">>}],
  [type |-> "chain", lmPrefix |-> FALSE, alts |-> {
     <<"c", "h", "a", "i", "n">>,
     <<"t", "e", "x", "t", "s", "p", "l", "i", "t", "t", "e", "r">>,
     <<"p", "a", "r", "s", "e", "r">>,
     <<"m", "e", "m", "o", "r", "y">>,
     <<"w", "o", "r", "k", "f", "l", "o", "w">>}],
  [type |-> "evaluator", lmPrefix |-> FALSE, alts |-> {
     <<"r", "e", "r", "a", "n", "k">>,
     <<"c", "l", "a", "s", "s", "i", "f">>,
     <<"s", "e", "n", "t", "i", "m", "e", "n", "t">>,
     <<"e", "x", "t", "r", "a", "c", "t">>}],
  [type |-> "guardrail", lmPrefix |-> FALSE, alts |-> {
     <<"p", "e", "r", "s", "p", "e", "c", "t", "i", "v", "e">>,
     <<"r", "e", "k", "o", "g", "n", "i", "t", "i", "o", "n">>,
     <<"m", "o", "d", "e", "r", "a", "t", "i", "o", "n">>,
     <<"g", "u", "a", "r", "d", "r", "a", "i", "l">>}]
>>

INTERNAL_LOGIC == {
  <<"I", "f">>,
  <<"S", "w", "i", "t", "c", "h">>,
  <<"S", "e", "t">>,
  <<"M", "o", "v", "e">>,
  <<"R", "e", "n", "a", "m", "e">>,
  <<"W", "a", "i", "t">>,
  <<"W", "a", "i", "t", "U", "n", "t", "i", "l">>,
  <<"F", "u", "n", "c", "t", "i", "o", "n">>,
  <<"F", "u", "n", "c", "t", "i", "o", "n", "I", "t", "e", "m">>,
  <<"C", "o", "d", "e">>,
  <<"N", "o", "O", "p">>,
  <<"E", "x", "e", "c", "u", "t", "e", "W", "o", "r", "k", "f", "l", "o", "w">>,
  <<"S", "u", "b", "w", "o", "r", "k", "f", "l", "o", "w", "T", "o">>}

RuleMatches(rule, str) ==
  \/ \E a \in rule.alts : Contains(str, a)
  \/ rule.lmPrefix /\ StartsLmLetter(str)

\* The fallback without the set of internal logic nodes.
categoryFallbackNoInternalLogic(type, category) ==
  CASE category = "Trigger Nodes"      -> "event"
    [] category = "Transform Nodes"    -> "chain"
    [] category = "AI/LangChain Nodes" -> "chain"
    [] category = "Core Nodes" ->
         IF type \in {<<"S", "c", "h", "e", "d", "u", "l", "e">>, <<"C", "r", "o", "n">>}
         THEN "event"
         ELSE "tool"
    [] OTHER -> "undefined"

categoryFallback(type, category) ==
  CASE category = "Trigger Nodes"      -> "event"
    [] category = "Transform Nodes"    -> "chain"
    [] category = "AI/LangChain Nodes" -> "chain"
    [] category = "Core Nodes" ->
         IF type \in INTERNAL_LOGIC THEN "chain"
         ELSE IF type \in {<<"S", "c", "h", "e", "d", "u", "l", "e">>, <<"C", "r", "o", "n">>}
         THEN "event"
         ELSE "tool"
    [] OTHER -> "undefined"

\* nodeAttributes?.['n8n.node.category'] || nodeAttributes?.['n8n.node.category_raw']
HintCategory(nodeAttributes) ==
  IF nodeAttributes.category # "undefined" THEN nodeAttributes.category
  ELSE nodeAttributes.category_raw

\* Tier 1 keeping only the last declared set that holds the type.
ExactHitsLastDeclared(original) ==
  LET hits == {k \in 1..Len(EXACT_SETS) : original \in EXACT_SETS[k].set}
  IN {k \in hits : \A h \in hits : h <= k}

\* tier 1: the sets that hold the type
ExactHits(original) ==
  {k \in 1..Len(EXACT_SETS) : original \in EXACT_SETS[k].set}

\* tier 2: the rules that match the lower-cased type
RegexHits(original) ==
  {j \in 1..Len(REGEX_RULES) : RuleMatches(REGEX_RULES[j], ToLowerCase(original))}

\* The mapper with tiers 1 and 2 exchanged.
mapNodeToObservationTypeRegexFirst(nodeType, nodeAttributes) ==
  IF ~nodeType.isString \/ nodeType.chars = <<>> THEN "undefined"
  ELSE LET original == nodeType.chars
       IN IF RegexHits(original) # {}
          THEN REGEX_RULES[MinOf(RegexHits(original))].type
          ELSE IF ExactHits(original) # {}
          THEN EXACT_SETS[MinOf(ExactHits(original))].type
          ELSE categoryFallback(original, HintCategory(nodeAttributes))

mapNodeToObservationType(nodeType, nodeAttributes) ==
  IF ~nodeType.isString \/ nodeType.chars = <<>> THEN "undefined"
  ELSE LET original == nodeType.chars
       IN IF ExactHits(original) # {}
          THEN EXACT_SETS[MinOf(ExactHits(original))].type
          ELSE IF RegexHits(original) # {}
          THEN REGEX_RULES[MinOf(RegexHits(original))].type
          ELSE categoryFallback(original, HintCategory(nodeAttributes))

\* The node types the mapper is applied to: members of exact sets (some of which
\* a rule of another type matches too), types only rules match (some matched by
\* several), types nothing matches, the empty string and a non-string.
TypeSamples == {
  <<"A", "g", "e", "n", "t">>,
  <<"L", "m", "C", "h", "a", "t", "O", "p", "e", "n", "A", "i">>,
  <<"R", "e", "t", "r", "i", "e", "v", "e", "r", "V", "e", "c", "t", "o", "r", "S", "t", "o", "r", "e">>,
  <<"O", "u", "t", "p", "u", "t", "P", "a", "r", "s", "e", "r", "A", "u", "t", "o", "f", "i", "x", "i", "n", "g">>,
  <<"T", "o", "o", "l", "W", "o", "r", "k", "f", "l", "o", "w">>,
  <<"T", "o", "o", "l", "T", "h", "i", "n", "k">>,
  <<"E", "m", "b", "e", "d", "d", "i", "n", "g", "s", "O", "p", "e", "n", "A", "i">>,
  <<"M", "e", "m", "o", "r", "y", "C", "h", "a", "t", "R", "e", "t", "r", "i", "e", "v", "e", "r">>,
  <<"G", "o", "o", "g", "l", "e", "P", "e", "r", "s", "p", "e", "c", "t", "i", "v", "e">>,
  <<"S", "e", "n", "t", "i", "m", "e", "n", "t", "A", "n", "a", "l", "y", "s", "i", "s">>,
  <<"M", "o", "d", "e", "l", "S", "e", "l", "e", "c", "t", "o", "r">>,
  <<"a", "g", "e", "n", "t">>,
  <<"T", "o", "o", "l", "A", "g", "e", "n", "t">>,
  <<"C", "h", "a", "t", "M", "e", "m", "o", "r", "y">>,
  <<"M", "y", "T", "o", "o", "l">>,
  <<"C", "u", "s", "t", "o", "m", "P", "a", "r", "s", "e", "r">>,
  <<"R", "e", "r", "a", "n", "k", "e", "r">>,
  <<"M", "o", "d", "e", "r", "a", "t", "i", "o", "n", "C", "h", "e", "c", "k">>,
  <<"L", "m", "X">>,
  <<"L", "m", "1">>,
  <<"F", "i", "l", "m">>,
  <<"V", "e", "c", "t", "o", "r", "S", "t", "o", "r", "e", "C", "u", "s", "t", "o", "m">>,
  <<"E", "m", "b", "e", "d", "d", "i", "n", "g", "T", "o", "o", "l">>,
  <<"E", "x", "e", "c", "u", "t", "e", "W", "o", "r", "k", "f", "l", "o", "w">>,
  <<"U", "n", "k", "n", "o", "w", "n", "W", "i", "d", "g", "e", "t", "1", "2", "3">>,
  <<"S", "c", "h", "e", "d", "u", "l", "e">>,
  <<"C", "r", "o", "n">>,
  <<"I", "f">>,
  <<"C", "o", "d", "e">>,
  <<"S", "w", "i", "t", "c", "h">>,
  <<"n", "8", "n", "-", "n", "o", "d", "e", "s", "-", "b", "a", "s", "e", ".", "i", "f">>,
  <<"@", "n", "8", "n", "/", "n", "8", "n", "-", "n", "o", "d", "e", "s", "-", "l", "a", "n", "g", "c", "h", "a", "i", "n", ".", "l", "m", "C", "h", "a", "t", "O", "p", "e", "n", "A", "i">>,
  <<>>}

Categories == {"undefined", "Trigger Nodes", "Transform Nodes",
               "AI/LangChain Nodes", "Core Nodes", "Other Nodes"}

\* Every member of every exact set.
ExactMembers == UNION {EXACT_SETS[k].set : k \in 1..Len(EXACT_SETS)}

ClassifierInputs ==
  [type : {[isString |-> TRUE, chars |-> t] :
             t \in TypeSamples \cup ExactMembers \cup INTERNAL_LOGIC}
            \cup {[isString |-> FALSE, chars |-> <<>>]},
   attrs : [category : Categories, category_raw : {"undefined", "Core Nodes"}]]

\* observationType = mapNodeToObservationType(node?.type, nodeAttributes)
Classify ==
  /\ clsOut = "pending"
  /\ clsOut' = mapNodeToObservationType(clsIn.type, clsIn.attrs)
  /\ UNCHANGED <<clsIn, wrapVars, guardVars, fnVars>>

ClsInit == clsIn \in ClassifierInputs /\ clsOut = "pending"

InitClassify == WrapIdle /\ GuardIdle /\ ClsInit /\ FnIdle

NextClassify == Classify

SpecClassify == InitClassify /\ [][NextClassify]_vars

Str_ToolWorkflow == <<"T", "o", "o", "l", "W", "o", "r", "k", "f", "l", "o", "w">>
Str_ToolAgent    == <<"T", "o", "o", "l", "A", "g", "e", "n", "t">>
Str_ChatMemory   == <<"C", "h", "a", "t", "M", "e", "m", "o", "r", "y">>
Str_Unknown      == <<"U", "n", "k", "n", "o", "w", "n", "W", "i", "d", "g", "e", "t", "1", "2", "3">>

\* C10: the first matching tier decides. A member of an exact set gets that
\* set's type whatever the rules and the hint say; otherwise the first rule, in
\* declared order, that matches the lower-cased type decides whatever the hint
\* says; the category hint decides only when no set and no rule matches; when
\* nothing matches the result is undefined, never another value.
C10_FirstMatchingTierDecides ==
  clsOut # "pending" =>
    LET t     == clsIn.type.chars
        valid == clsIn.type.isString /\ t # <<>>
        sets  == {k \in 1..Len(EXACT_SETS) : t \in EXACT_SETS[k].set}
        rules == {j \in 1..Len(REGEX_RULES) :
                    RuleMatches(REGEX_RULES[j], ToLowerCase(t))}
        cat   == HintCategory(clsIn.attrs)
    IN /\ clsOut \in OBS_TYPES \cup {"undefined"}
       /\ ~valid => clsOut = "undefined"
       /\ (valid /\ sets # {}) =>
            clsOut = EXACT_SETS[MinOf(sets)].type
       /\ (valid /\ sets = {} /\ rules # {}) =>
            clsOut = REGEX_RULES[MinOf(rules)].type
       /\ (valid /\ sets = {} /\ rules = {}) =>
            /\ clsOut = categoryFallback(t, cat)
            /\ cat \notin {"Trigger Nodes", "Transform Nodes", "AI/LangChain Nodes",
                           "Core Nodes"} => clsOut = "undefined"
       /\ t = Str_ToolWorkflow => clsOut = "chain"
       /\ t = Str_ToolAgent    => clsOut = "agent"
       /\ t = Str_ChatMemory   => clsOut = "generation"
       /\ (t = Str_Unknown /\ cat = "undefined") => clsOut = "undefined"

\* ToolWorkflow is in the exact set of chain, the rule of tool matches it and
\* the hint says Core Nodes: the exact set has decided.
C10_Witness ==
  /\ clsIn.type.chars = Str_ToolWorkflow
  /\ clsIn.attrs.category = "Core Nodes"
  /\ clsOut = "chain"

Str_LmChatOpenAi           == <<"L", "m", "C", "h", "a", "t", "O", "p", "e", "n", "A", "i">>
Str_RetrieverVectorStore   == <<"R", "e", "t", "r", "i", "e", "v", "e", "r", "V", "e", "c", "t", "o", "r", "S", "t", "o", "r", "e">>
Str_OutputParserAutofixing == <<"O", "u", "t", "p", "u", "t", "P", "a", "r", "s", "e", "r", "A", "u", "t", "o", "f", "i", "x", "i", "n", "g">>

\* The type of the set declared first among those that list the type t.
FirstDeclaredType(t) ==
  LET k == CHOOSE i \in 1..Len(EXACT_SETS) :
             /\ t \in EXACT_SETS[i].set
             /\ \A h \in 1..(i - 1) : t \notin EXACT_SETS[h].set
  IN EXACT_SETS[k].type

\* C11: a member of an exact set classifies as the type of the first declared
\* set that lists it, whatever the hints are: LmChatOpenAi is a generation,
\* RetrieverVectorStore a retriever, and OutputParserAutofixing, listed under
\* evaluator and under chain, is an evaluator on every call.
C11_ExactMemberGetsFirstDeclaredSet ==
  clsOut # "pending" =>
    LET t == clsIn.type.chars
    IN /\ (clsIn.type.isString /\ t \in ExactMembers) =>
            clsOut = FirstDeclaredType(t)
       /\ t = Str_LmChatOpenAi           => clsOut = "generation"
       /\ t = Str_RetrieverVectorStore   => clsOut = "retriever"
       /\ t = Str_OutputParserAutofixing => clsOut = "evaluator"

\* OutputParserAutofixing, a member of two sets, classified with a hint that
\* alone would say event.
C11_Witness ==
  /\ clsIn.type.chars = Str_OutputParserAutofixing
  /\ clsIn.attrs.category = "Trigger Nodes"
  /\ clsOut = "evaluator"

Str_Schedule == <<"S", "c", "h", "e", "d", "u", "l", "e">>
Str_Cron     == <<"C", "r", "o", "n">>

\* The control-flow names of the core category.
ControlFlowNames == {<<"I", "f">>,
  <<"S", "w", "i", "t", "c", "h">>,
  <<"S", "e", "t">>,
  <<"M", "o", "v", "e">>,
  <<"R", "e", "n", "a", "m", "e">>,
  <<"W", "a", "i", "t">>,
  <<"W", "a", "i", "t", "U", "n", "t", "i", "l">>,
  <<"F", "u", "n", "c", "t", "i", "o", "n">>,
  <<"F", "u", "n", "c", "t", "i", "o", "n", "I", "t", "e", "m">>,
  <<"C", "o", "d", "e">>,
  <<"N", "o", "O", "p">>}

\* C12: for a type no exact set lists and no rule matches, with the core
\* category as hint, a control-flow name classifies as chain, Schedule and Cron
\* as event and every other name as tool; the empty type classifies as
\* undefined whatever the hints are.
C12_CoreCategoryFallback ==
  clsOut # "pending" =>
    LET t    == clsIn.type.chars
        core == /\ clsIn.type.isString /\ t # <<>>
                /\ t \notin ExactMembers
                /\ \A j \in 1..Len(REGEX_RULES) :
                      ~RuleMatches(REGEX_RULES[j], ToLowerCase(t))
                /\ \/ clsIn.attrs.category = "Core Nodes"
                   \/ /\ clsIn.attrs.category = "undefined"
                      /\ clsIn.attrs.category_raw = "Core Nodes"
    IN /\ (core /\ t \in ControlFlowNames) => clsOut = "chain"
       /\ (core /\ t \in {Str_Schedule, Str_Cron}) => clsOut = "event"
       /\ (core /\ t \notin ControlFlowNames \cup {Str_Schedule, Str_Cron}
                /\ t \notin INTERNAL_LOGIC) => clsOut = "tool"
       /\ (core /\ t = Str_Unknown) => clsOut = "tool"
       /\ t = <<>> => clsOut = "undefined"

\* WaitUntil, which no set lists and no rule matches, under the core category.
C12_Witness ==
  /\ clsIn.type.chars = <<"W", "a", "i", "t", "U", "n", "t", "i", "l">>
  /\ clsIn.attrs.category = "Core Nodes"
  /\ clsOut = "chain"

(***************************************************************************)
(* Helper functions of tracing.js. Each is applied once to an input drawn  *)
(* from a bounded set: fnIn holds the arguments, fnOut the returned value. *)
(* JavaScript values are records [type, str]: str is the text of a string, *)
(* or what String(value) gives for a number.                               *)
(***************************************************************************)

\* longest string drawn letter by letter
MaxSegLen == 4

\* .slice(0, 80)
SegmentMaxChars == 80

Digits == <<"0", "1", "2", "3", "4", "5", "6", "7", "8", "9">>

\* [a-zA-Z0-9._-]
SegmentChars ==
  {UpperChars[i] : i \in 1..Len(UpperChars)} \cup LowerCharSet
    \cup {Digits[i] : i \in 1..Len(Digits)} \cup {".", "_", "-"}

\* the characters \s matches and trim() removes, as far as inputs hold them
WhitespaceChars == {" ", "\t"}

JsUndefined == [type |-> "undefined", str |-> <<>>]
JsNull      == [type |-> "null", str |-> <<>>]
JsString(chars) == [type |-> "string", str |-> chars]
JsNumber(chars) == [type |-> "number", str |-> chars]

\* !value
Falsy(value) ==
  \/ value.type \in {"undefined", "null"}
  \/ value.type = "string" /\ value.str = <<>>
  \/ value.type = "number" /\ value.str \in {<<"0">>, <<"N", "a", "N">>}

\* String(value), for a value that is not undefined or null
ToStr(value) == value.str

RECURSIVE TrimStart(_)
TrimStart(str) ==
  IF str # <<>> /\ Head(str) \in WhitespaceChars THEN TrimStart(Tail(str))
  ELSE str

RECURSIVE TrimEnd(_)
TrimEnd(str) ==
  IF str # <<>> /\ str[Len(str)] \in WhitespaceChars
  THEN TrimEnd(SubSeq(str, 1, Len(str) - 1))
  ELSE str

\* .trim()
Trim(str) == TrimEnd(TrimStart(str))

\* .replace(/\s+/g, '-'): every maximal run of whitespace becomes one hyphen.
\* Computed on the two halves of the string; a run that spans the middle has
\* given a hyphen on each side, of which one is kept.
RECURSIVE ReplaceWhitespaceRuns(_)
ReplaceWhitespaceRuns(str) ==
  IF str = <<>> THEN <<>>
  ELSE IF Len(str) = 1
  THEN IF str[1] \in WhitespaceChars THEN <<"-">> ELSE str
  ELSE LET mid   == Len(str) \div 2
           left  == ReplaceWhitespaceRuns(SubSeq(str, 1, mid))
           right == ReplaceWhitespaceRuns(SubSeq(str, mid + 1, Len(str)))
       IN IF str[mid] \in WhitespaceChars /\ str[mid + 1] \in WhitespaceChars
          THEN left \o Tail(right)
          ELSE left \o right

\* .replace(/[^a-zA-Z0-9._-]/g, '-')
ReplaceDisallowed(str) ==
  [i \in 1..Len(str) |-> IF str[i] \in SegmentChars THEN str[i] ELSE "-"]

\* .slice(0, n) for n >= 0
Slice(str, n) == SubSeq(str, 1, IF Len(str) < n THEN Len(str) ELSE n)

\* sanitizeSegment without the trailing `|| def`.
sanitizeSegmentNoFallback(value, def) ==
  IF Falsy(value) THEN def
  ELSE Slice(ReplaceDisallowed(ReplaceWhitespaceRuns(Trim(ToStr(value)))),
             SegmentMaxChars)

sanitizeSegment(value, def) ==
  IF Falsy(value) THEN def
  ELSE LET cut == Slice(ReplaceDisallowed(ReplaceWhitespaceRuns(Trim(ToStr(value)))),
                        SegmentMaxChars)
       IN IF cut = <<>> THEN def ELSE cut

\* The defaults the callers supply, and the default of the parameter.
SegmentDefaults == {<<"w", "f">>, <<"w", "o", "r", "k", "f", "l", "o", "w">>, <<"e", "x", "e", "c">>, <<"s", "e", "s", "s">>, <<"u", "n", "k", "n", "o", "w", "n">>}

\* An allowed letter, an allowed sign, two whitespace characters and two
\* disallowed characters.
SegAlphabet == {"a", ".", " ", "\t", "!", "{"}

RECURSIVE StringsUpTo(_)
StringsUpTo(n) ==
  IF n = 0 THEN {<<>>}
  ELSE LET shorter == StringsUpTo(n - 1)
       IN shorter \cup {Append(w, ch) : w \in {x \in shorter : Len(x) = n - 1},
                                        ch \in SegAlphabet}

\* the first n characters of unit repeated
Repeated(unit, n) == [i \in 1..n |-> unit[((i - 1) % Len(unit)) + 1]]

\* Strings around the cap and beyond it: plain, with whitespace runs, with
\* disallowed characters, with leading whitespace.
LongStrings ==
  {Repeated(unit, n) :
     unit \in {<<"a">>, <<"a", " ">>, <<"a", " ", "\t">>, <<"!", "a">>,
               <<" ", " ", "a", "a", "a">>},
     n \in {SegmentMaxChars - 1, SegmentMaxChars, SegmentMaxChars + 1,
            (3 * SegmentMaxChars) \div 2}}

SegmentValues ==
  {JsUndefined, JsNull, JsNumber(<<"0">>), JsNumber(<<"4", "2">>),
   JsNumber(<<"-", "1", ".", "5">>), JsNumber(<<"N", "a", "N">>)}
    \cup {JsString(w) : w \in StringsUpTo(MaxSegLen) \cup LongStrings}

SanitizeInputs == [value : SegmentValues, def : SegmentDefaults]

\* sanitizeSegment(value, def)
Sanitize ==
  /\ fnOut = <<>>
  /\ fnOut' = <<sanitizeSegment(fnIn.value, fnIn.def)>>
  /\ UNCHANGED <<fnIn, wrapVars, guardVars, clsVars>>

InitSanitize == WrapIdle /\ GuardIdle /\ ClsIdle /\ fnIn \in SanitizeInputs /\ fnOut = <<>>

SpecSanitize == InitSanitize /\ [][Sanitize]_vars

\* The positions of str that survive the collapse of whitespace runs: every
\* character that is no whitespace, and the first character of every run.
KeptPositions(str) ==
  {i \in 1..Len(str) :
     str[i] \in WhitespaceChars => (i = 1 \/ str[i - 1] \notin WhitespaceChars)}

\* str with a hyphen for every whitespace run and every disallowed character,
\* described position by position.
Hyphenated(str) ==
  LET kept == KeptPositions(str)
      nth(k) == CHOOSE i \in kept : Cardinality({j \in kept : j <= i}) = k
  IN [k \in 1..Cardinality(kept) |->
        IF str[nth(k)] \in SegmentChars THEN str[nth(k)] ELSE "-"]

\* The text of the value with the whitespace at both ends removed.
TrimmedText(value) ==
  LET str   == value.str
      solid == {i \in 1..Len(str) : str[i] \notin WhitespaceChars}
  IN IF solid = {} THEN <<>>
     ELSE SubSeq(str, MinOf(solid), CHOOSE i \in solid : \A j \in solid : j <= i)

\* C13: for every value sanitizeSegment returns a non-empty string of at most
\* 80 characters, all of [A-Za-z0-9._-]; it is the first 80 characters of the
\* trimmed input with a hyphen for every whitespace run and every disallowed
\* character; a missing, empty or whitespace-only value gives the default.
C13_SanitizeSegment ==
  fnOut # <<>> =>
    LET out     == fnOut[1]
        value   == fnIn.value
        missing == value.type \in {"undefined", "null"}
        text    == IF missing THEN <<>> ELSE TrimmedText(value)
    IN /\ out # <<>>
       /\ Len(out) <= SegmentMaxChars
       /\ \A i \in 1..Len(out) : out[i] \in SegmentChars
       /\ text = <<>> => out = fnIn.def
       /\ (text # <<>> /\ ~Falsy(value)) =>
            /\ Len(out) = IF Len(Hyphenated(text)) < SegmentMaxChars
                          THEN Len(Hyphenated(text)) ELSE SegmentMaxChars
            /\ \A i \in 1..Len(out) : out[i] = Hyphenated(text)[i]

\* A string with leading whitespace and whitespace runs, longer than the cap
\* after trimming and collapsing, has been cut to the cap.
C13_Witness ==
  /\ fnOut # <<>>
  /\ fnIn.value.type = "string"
  /\ Len(fnIn.value.str) > SegmentMaxChars
  /\ fnIn.value.str[1] = " "
  /\ Len(fnOut[1]) = SegmentMaxChars
  /\ \E i \in 1..Len(fnOut[1]) : fnOut[1][i] = "-"

(***************************************************************************)
(* buildWorkflowSpanName                                                   *)
(***************************************************************************)

\* .slice(0, 180)
WorkflowNameMaxChars == 180

Str_WorkflowExecute == <<"n", "8", "n", ".", "w", "o", "r", "k", "f", "l", "o", "w", ".", "e", "x", "e", "c", "u", "t", "e">>

\* the start positions of the occurrences of sub in str
Occurrences(str, sub) ==
  {i \in 1..(Len(str) - Len(sub) + 1) : SubSeq(str, i, i + Len(sub) - 1) = sub}

\* str.replace(/sub/g, rep) for a literal sub and a rep without `$`: the
\* occurrences are replaced from left to right, and a replacement is not
\* searched again by the same call.
RECURSIVE ReplaceAll(_, _, _)
ReplaceAll(str, sub, rep) ==
  IF Occurrences(str, sub) = {} THEN str
  ELSE LET i == MinOf(Occurrences(str, sub))
       IN SubSeq(str, 1, i - 1) \o rep
            \o ReplaceAll(SubSeq(str, i + Len(sub), Len(str)), sub, rep)

\* deriveSessionId(executionId)
deriveSessionId(executionId) ==
  IF Falsy(executionId) THEN JsString(<<"u", "n", "k", "n", "o", "w", "n">>) ELSE executionId

\* WORKFLOW_SPAN_NAME_PATTERN && WORKFLOW_SPAN_NAME_PATTERN.trim()
PatternSet(pattern) == ~Falsy(pattern) /\ Trim(pattern.str) # <<>>

\* cfg holds WORKFLOW_SPAN_NAME_PATTERN and DYNAMIC_WORKFLOW_TRACE_NAME
buildWorkflowSpanName(cfg, workflowId, workflowName, executionId, sessionId) ==
  IF PatternSet(cfg.pattern)
  THEN LET r1   == ReplaceAll(cfg.pattern.str, <<"{", "w", "o", "r", "k", "f", "l", "o", "w", "I", "d", "}">>,
                              sanitizeSegment(workflowId, <<"w", "f">>))
           r2   == ReplaceAll(r1, <<"{", "w", "o", "r", "k", "f", "l", "o", "w", "N", "a", "m", "e", "}">>,
                              sanitizeSegment(workflowName, <<"w", "o", "r", "k", "f", "l", "o", "w">>))
           r3   == ReplaceAll(r2, <<"{", "e", "x", "e", "c", "u", "t", "i", "o", "n", "I", "d", "}">>,
                              sanitizeSegment(executionId, <<"e", "x", "e", "c">>))
           r4   == ReplaceAll(r3, <<"{", "s", "e", "s", "s", "i", "o", "n", "I", "d", "}">>,
                              sanitizeSegment(sessionId, <<"s", "e", "s", "s">>))
           name == Slice(r4, WorkflowNameMaxChars)
       IN IF name = <<>> THEN Str_WorkflowExecute ELSE name
  ELSE IF cfg.dynamic
  THEN sanitizeSegment(workflowId, <<"w", "f">>) \o <<"-">>
         \o sanitizeSegment(workflowName, <<"w", "o", "r", "k", "f", "l", "o", "w">>) \o <<"-">>
         \o sanitizeSegment(executionId, <<"e", "x", "e", "c">>)
  ELSE Str_WorkflowExecute

\* TRACING_WORKFLOW_SPAN_NAME_PATTERN: unset, blank, without placeholder, with
\* each placeholder, with one placeholder several times, with a placeholder in
\* braces of its own.
PatternSamples ==
  {JsUndefined,
   JsString(<<>>),
   JsString(<<" ", " ">>),
   JsString(<<"s", "t", "a", "t", "i", "c", " ", "n", "a", "m", "e">>),
   JsString(<<"{", "w", "o", "r", "k", "f", "l", "o", "w", "N", "a", "m", "e", "}">>),
   JsString(<<"{", "w", "o", "r", "k", "f", "l", "o", "w", "n", "a", "m", "e", "}">>),
   JsString(<<"{", "w", "o", "r", "k", "f", "l", "o", "w", "I", "d", "}", "{", "w", "o", "r", "k", "f", "l", "o", "w", "I", "d", "}">>),
   JsString(<<"w", "f", ":", "{", "w", "o", "r", "k", "f", "l", "o", "w", "I", "d", "}", "/", "{", "w", "o", "r", "k", "f", "l", "o", "w", "N", "a", "m", "e", "}", " ", "#", "{", "e", "x", "e", "c", "u", "t", "i", "o", "n", "I", "d", "}", " ", "{", "s", "e", "s", "s", "i", "o", "n", "I", "d", "}">>),
   JsString(<<"{", "{", "w", "o", "r", "k", "f", "l", "o", "w", "N", "a", "m", "e", "}", "}">>),
   JsString(<<"{", "{", "w", "o", "r", "k", "f", "l", "o", "w", "I", "d", "}", "}">>),
   JsString(<<"{", "w", "o", "r", "k", "f", "l", "o", "w", "N", "a", "m", "e", "}", "{", "w", "o", "r", "k", "f", "l", "o", "w", "N", "a", "m", "e", "}", "{", "w", "o", "r", "k", "f", "l", "o", "w", "N", "a", "m", "e", "}">>)}

\* wfData?.id ?? ''
WorkflowIdSamples == {JsString(<<>>), JsString(<<"w", "f", " ", "1">>), JsString(<<"w", "o", "r", "k", "f", "l", "o", "w", "N", "a", "m", "e">>)}

\* wfData?.name ?? '', one of them longer than a segment
WorkflowNameSamples ==
  {JsString(<<>>), JsString(<<"M", "y", " ", "F", "l", "o", "w", "!">>), JsString(<<"s", "e", "s", "s", "i", "o", "n", "I", "d">>), JsString(<<"e", "x", "e", "c", "u", "t", "i", "o", "n", "I", "d">>),
   JsString(Repeated(<<"n", " ">>, SegmentMaxChars + 1))}

\* this?.executionId || ... || 'unknown'
ExecutionIdSamples == {JsString(<<"u", "n", "k", "n", "o", "w", "n">>), JsString(<<"4", "2">>)}

WorkflowNameInputs ==
  [cfg : [pattern : PatternSamples, dynamic : BOOLEAN],
   workflowId : WorkflowIdSamples, workflowName : WorkflowNameSamples,
   executionId : ExecutionIdSamples]

\* const workflowSpanName = buildWorkflowSpanName({workflowId, workflowName,
\* executionId, sessionId}) in the workflow wrapper
BuildWorkflowSpanName ==
  /\ fnOut = <<>>
  /\ fnOut' = <<buildWorkflowSpanName(fnIn.cfg, fnIn.workflowId, fnIn.workflowName,
                                      fnIn.executionId,
                                      deriveSessionId(fnIn.executionId))>>
  /\ UNCHANGED <<fnIn, wrapVars, guardVars, clsVars>>

InitWorkflowName == WrapIdle /\ GuardIdle /\ ClsIdle /\ fnIn \in WorkflowNameInputs /\ fnOut = <<>>

SpecWorkflowName == InitWorkflowName /\ [][BuildWorkflowSpanName]_vars

\* The placeholders and, for the call in fnIn, the sanitized value of each.
Placeholders == {<<"{", "w", "o", "r", "k", "f", "l", "o", "w", "I", "d", "}">>, <<"{", "w", "o", "r", "k", "f", "l", "o", "w", "N", "a", "m", "e", "}">>, <<"{", "e", "x", "e", "c", "u", "t", "i", "o", "n", "I", "d", "}">>, <<"{", "s", "e", "s", "s", "i", "o", "n", "I", "d", "}">>}

SanitizedFor(ph) ==
  CASE ph = <<"{", "w", "o", "r", "k", "f", "l", "o", "w", "I", "d", "}">>   -> sanitizeSegment(fnIn.workflowId, <<"w", "f">>)
    [] ph = <<"{", "w", "o", "r", "k", "f", "l", "o", "w", "N", "a", "m", "e", "}">> -> sanitizeSegment(fnIn.workflowName, <<"w", "o", "r", "k", "f", "l", "o", "w">>)
    [] ph = <<"{", "e", "x", "e", "c", "u", "t", "i", "o", "n", "I", "d", "}">> -> sanitizeSegment(fnIn.executionId, <<"e", "x", "e", "c">>)
    [] ph = <<"{", "s", "e", "s", "s", "i", "o", "n", "I", "d", "}">> -> sanitizeSegment(deriveSessionId(fnIn.executionId), <<"s", "e", "s", "s">>)

\* The pattern with every placeholder that stands in the pattern replaced by
\* its sanitized value, and nothing else replaced.
RECURSIVE Substituted(_)
Substituted(pattern) ==
  LET at == {i \in 1..Len(pattern) :
               \E ph \in Placeholders : i \in Occurrences(pattern, ph)}
  IN IF at = {} THEN pattern
     ELSE LET i  == MinOf(at)
              ph == CHOOSE p \in Placeholders : i \in Occurrences(pattern, p)
          IN SubSeq(pattern, 1, i - 1) \o SanitizedFor(ph)
               \o Substituted(SubSeq(pattern, i + Len(ph), Len(pattern)))

\* C14: the workflow span name is, with a non-blank pattern, the pattern with
\* each of its placeholders replaced by the sanitized value, cut to 180
\* characters, whatever the dynamic flag is; else, with dynamic naming, the
\* sanitized workflow id, workflow name and execution id joined by hyphens;
\* else n8n.workflow.execute. A substituted value is never expanded as a
\* placeholder itself.
C14_WorkflowSpanNamePrecedence ==
  fnOut # <<>> =>
    LET name == fnOut[1]
        cfg  == fnIn.cfg
        set  == cfg.pattern.type = "string"
                  /\ \E i \in 1..Len(cfg.pattern.str) :
                       cfg.pattern.str[i] \notin WhitespaceChars
    IN /\ set => name = Slice(Substituted(cfg.pattern.str), WorkflowNameMaxChars)
       /\ (~set /\ cfg.dynamic) =>
            name = SanitizedFor(<<"{", "w", "o", "r", "k", "f", "l", "o", "w", "I", "d", "}">>) \o <<"-">> \o SanitizedFor(<<"{", "w", "o", "r", "k", "f", "l", "o", "w", "N", "a", "m", "e", "}">>)
                     \o <<"-">> \o SanitizedFor(<<"{", "e", "x", "e", "c", "u", "t", "i", "o", "n", "I", "d", "}">>)
       /\ (~set /\ ~cfg.dynamic) => name = Str_WorkflowExecute

(***************************************************************************)
(* The name of a node span (runNode wrapper). Names and observation types  *)
(* are strings here: nothing looks inside them.                            *)
(***************************************************************************)

\* let observationType; if (MAP_LANGFUSE_OBSERVATION_TYPES) observationType =
\* mapNodeToObservationType(node?.type, nodeAttributes)
ObservationTypeOf(cfg, node) ==
  IF cfg.mapTypes
  THEN mapNodeToObservationType(
         IF node.present THEN node.type ELSE [isString |-> FALSE, chars |-> <<>>],
         [category |-> IF node.present THEN node.category ELSE "undefined",
          category_raw |-> "undefined"])
  ELSE "undefined"

\* node?.name || 'unknown-node'
NodeNameOrFallback(node) ==
  IF node.present /\ node.name.defined /\ node.name.text # ""
  THEN node.name.text
  ELSE "unknown-node"

\* The name with the template used whenever the flag is set.
nodeSpanNameAlwaysTyped(cfg, node, observationType) ==
  IF cfg.useNodeName THEN NodeNameOrFallback(node)
  ELSE IF cfg.typeInName
  THEN "n8n.node." \o observationType \o ".execute"
  ELSE "n8n.node.execute"

\* cfg holds USE_NODE_NAME_SPAN, LANGFUSE_TYPE_IN_NODE_SPAN_NAME and
\* MAP_LANGFUSE_OBSERVATION_TYPES
nodeSpanName(cfg, node, observationType) ==
  IF cfg.useNodeName THEN NodeNameOrFallback(node)
  ELSE IF cfg.typeInName /\ observationType # "undefined"
  THEN "n8n.node." \o observationType \o ".execute"
  ELSE "n8n.node.execute"

NodeNameSamples ==
  {[defined |-> FALSE, text |-> ""], [defined |-> TRUE, text |-> ""],
   [defined |-> TRUE, text |-> "HTTP Request"], [defined |-> TRUE, text |-> "AI Agent"]}

NodeTypeSamples ==
  {[isString |-> FALSE, chars |-> <<>>],
   [isString |-> TRUE, chars |-> <<"A", "g", "e", "n", "t">>],
   [isString |-> TRUE, chars |-> <<"L", "m", "C", "h", "a", "t", "O", "p", "e", "n", "A", "i">>],
   [isString |-> TRUE, chars |-> <<"U", "n", "k", "n", "o", "w", "n", "W", "i", "d", "g", "e", "t", "1", "2", "3">>],
   [isString |-> TRUE, chars |-> <<"S", "c", "h", "e", "d", "u", "l", "e">>],
   [isString |-> TRUE, chars |-> <<>>]}

NodeSamples ==
  [present : {TRUE}, name : NodeNameSamples, type : NodeTypeSamples,
   category : {"undefined", "Core Nodes"}]
    \cup {[present |-> FALSE, name |-> [defined |-> FALSE, text |-> ""],
           type |-> [isString |-> FALSE, chars |-> <<>>], category |-> "undefined"]}

NodeNameInputs ==
  [cfg : [mapTypes : BOOLEAN, typeInName : BOOLEAN, useNodeName : BOOLEAN],
   node : NodeSamples]

\* the runNode wrapper from `let observationType` to `nodeSpanName = ...`
NameNodeSpan ==
  /\ fnOut = <<>>
  /\ fnOut' = <<nodeSpanName(fnIn.cfg, fnIn.node, ObservationTypeOf(fnIn.cfg, fnIn.node))>>
  /\ UNCHANGED <<fnIn, wrapVars, guardVars, clsVars>>

InitNodeName == WrapIdle /\ GuardIdle /\ ClsIdle /\ fnIn \in NodeNameInputs /\ fnOut = <<>>

SpecNodeName == InitNodeName /\ [][NameNodeSpan]_vars

\* The names that embed a type, and the one that would embed a missing type.
TypedNodeNames ==
  {"n8n.node." \o t \o ".execute" : t \in OBS_TYPES \cup {"undefined"}}

\* C15: the node span name is the raw node name in raw-name mode (unknown-node
\* for a node without a name); else n8n.node.<type>.execute when the type is
\* to be in the name and the node has a classification; else n8n.node.execute.
\* Outside raw-name mode, with classification disabled or without a
\* classification, the name embeds no type and never the text undefined.
C15_NodeSpanNamePrecedence ==
  fnOut # <<>> =>
    LET name   == fnOut[1]
        cfg    == fnIn.cfg
        node   == fnIn.node
        named  == node.present /\ node.name.defined /\ node.name.text # ""
        cls    == IF node.present
                  THEN mapNodeToObservationType(node.type,
                         [category |-> node.category, category_raw |-> "undefined"])
                  ELSE "undefined"
        hasCls == cfg.mapTypes /\ cls # "undefined"
    IN /\ (cfg.useNodeName /\ named) => name = node.name.text
       /\ (cfg.useNodeName /\ ~named) => name = "unknown-node"
       /\ (~cfg.useNodeName /\ cfg.typeInName /\ hasCls) =>
            name = "n8n.node." \o cls \o ".execute"
       /\ (~cfg.useNodeName /\ ~(cfg.typeInName /\ hasCls)) =>
            name = "n8n.node.execute"
       /\ (~cfg.useNodeName /\ ~hasCls) => name \notin TypedNodeNames

\* Without raw-name mode, with classification on and the type wanted in the
\* name, a node classified as agent.
C15_Witness ==
  /\ fnOut # <<>>
  /\ ~fnIn.cfg.useNodeName /\ fnIn.cfg.typeInName /\ fnIn.cfg.mapTypes
  /\ fnIn.node.present /\ fnIn.node.type.chars = <<"A", "g", "e", "n", "t">>
  /\ fnOut[1] = "n8n.node.agent.execute"

(***************************************************************************)
(* Flattening a record into span attributes. flatten is the function of    *)
(* the package flat (tracing.js requires it, line 56), called with a       *)
(* delimiter and, for the workflow settings, a transformKey; neither call  *)
(* passes safe or maxDepth. A nested value is [type, v, kids]: v is the    *)
(* text of a string, the decimal text of a number, true or false; kids are *)
(* the <<key, value>> entries of an object or an array in the order of     *)
(* Object.keys. Names, keys and texts are strings here.                    *)
(***************************************************************************)

VStr(s)    == [type |-> "string", v |-> s, kids |-> <<>>]
VNum(s)    == [type |-> "number", v |-> s, kids |-> <<>>]
VBool(s)   == [type |-> "boolean", v |-> s, kids |-> <<>>]
VNull      == [type |-> "null", v |-> "null", kids |-> <<>>]
VUndefined == [type |-> "undefined", v |-> "", kids |-> <<>>]
VObject(entries) == [type |-> "object", v |-> "", kids |-> entries]
\* the key of the n-th element of an array, n < 100
IndexKey(n) ==
  IF n < 10 THEN Digits[n + 1] ELSE Digits[(n \div 10) + 1] \o Digits[(n % 10) + 1]

VArray(items) ==
  [type |-> "array", v |-> "",
   kids |-> [i \in 1..Len(items) |-> <<IndexKey(i - 1), items[i]>>]]
\* a reference to the record that is being flattened
VSelf      == [type |-> "self", v |-> "", kids |-> <<>>]

\* the record refers to itself below v
RECURSIVE HasSelf(_)
HasSelf(value) ==
  \/ value.type = "self"
  \/ \E i \in 1..Len(value.kids) : HasSelf(value.kids[i][2])

\* JSON.stringify(value) of a value that is not undefined and has no cycle
RECURSIVE JsonText(_)
RECURSIVE JsonJoin(_, _, _)
JsonJoin(value, i, isObject) ==
  IF i > Len(value.kids) THEN ""
  ELSE (IF i > 1 THEN "," ELSE "")
         \o (IF isObject THEN "\"" \o value.kids[i][1] \o "\":" ELSE "")
         \o JsonText(value.kids[i][2])
         \o JsonJoin(value, i + 1, isObject)

JsonText(value) ==
  CASE value.type = "string"  -> "\"" \o value.v \o "\""
    [] value.type = "object"  -> "{" \o JsonJoin(value, 1, TRUE) \o "}"
    [] value.type = "array"   -> "[" \o JsonJoin(value, 1, FALSE) \o "]"
    [] value.type = "undefined" -> "null"
    [] OTHER                  -> value.v

\* JSON.stringify(value): undefined stays undefined
JSONstringify(value) ==
  IF value.type = "undefined" THEN VUndefined ELSE VStr(JsonText(value))

\* step(object, prev) of flatten: an entry whose value is an object or an array
\* with at least one key is walked, with no limit of depth; any other
\* value is written under its joined key. opts.keyPrefix stands for
\* transformKey, which is applied to every key of every level.
RECURSIVE step(_, _, _, _)
step(object, i, prev, opts) ==
  IF i > Len(object.kids) THEN <<>>
  ELSE LET key    == object.kids[i][1]
           value  == object.kids[i][2]
           newKey == IF prev # "" THEN prev \o opts.delimiter \o opts.keyPrefix \o key
                     ELSE opts.keyPrefix \o key
       IN (IF value.type \in {"object", "array"} /\ Len(value.kids) > 0
           THEN step(value, 1, newKey, opts)
           ELSE <<<<newKey, value>>>>)
            \o step(object, i + 1, prev, opts)

\* flatten(target, opts). Over a record that refers to itself the walk never
\* ends: the call stack overflows and a RangeError is thrown.
flatten(target, opts) ==
  IF HasSelf(target) THEN [threw |-> TRUE, out |-> <<>>]
  ELSE [threw |-> FALSE, out |-> step(target, 1, "", opts)]

\* ...flatten(wfData?.settings ?? {}, {delimiter: '.', transformKey: (key) =>
\* `n8n.workflow.settings.${key}`}): the entries are spread as they are
WorkflowSettingsAttributes(settings) ==
  flatten(settings, [delimiter |-> ".", keyPrefix |-> "n8n.workflow.settings."])

\* typeof value === 'string' || typeof value === 'number' ? value :
\* JSON.stringify(value)
NodeAttribute(value) ==
  IF value.type \in {"string", "number"} THEN value ELSE JSONstringify(value)

\* flattenedNode = flatten(node ?? {}, {delimiter: '.'}) and the loop over it
NodeAttributes(node) ==
  LET flattenedNode == flatten(node, [delimiter |-> ".", keyPrefix |-> ""])
  IN [flattenedNode EXCEPT
        !.out = [i \in 1..Len(flattenedNode.out) |->
                   <<"n8n.node." \o flattenedNode.out[i][1],
                     NodeAttribute(flattenedNode.out[i][2])>>]]

\* Terminal values: the scalars, null, an empty object, an empty array and an
\* array of two numbers.
LeafSamples ==
  {VStr("x"), VNum("1"), VBool("true"), VNull, VObject(<<>>), VArray(<<>>),
   VArray(<<VNum("1"), VNum("2")>>)}

\* {a: {b: 1, c: [1, 2]}}
ExampleRecord ==
  VObject(<<<<"a", VObject(<<<<"b", VNum("1")>>,
                            <<"c", VArray(<<VNum("1"), VNum("2")>>)>>>>)>>>>)

\* Records one and two levels deep, and records that refer to themselves
\* directly, below a nested record and inside an array.
RecordSamples ==
  {VObject(<<<<"a", l>>>>) : l \in LeafSamples}
    \cup {VObject(<<<<"a", VObject(<<<<"b", l1>>, <<"c", l2>>>>)>>>>) :
            l1 \in LeafSamples, l2 \in LeafSamples}
    \cup {VObject(<<<<"a", VSelf>>>>),
          VObject(<<<<"a", VObject(<<<<"b", VNum("1")>>, <<"c", VSelf>>>>)>>>>),
          VObject(<<<<"a", VArray(<<VSelf>>)>>>>)}

FlattenInputs == [wrapper : {"workflow", "task"}, record : RecordSamples]

\* the attributes either wrapper takes from the record it is given
FlattenAttributes ==
  /\ fnOut = <<>>
  /\ fnOut' = <<IF fnIn.wrapper = "task" THEN NodeAttributes(fnIn.record)
                ELSE WorkflowSettingsAttributes(fnIn.record)>>
  /\ UNCHANGED <<fnIn, wrapVars, guardVars, clsVars>>

InitFlatten == WrapIdle /\ GuardIdle /\ ClsIdle /\ fnIn \in FlattenInputs /\ fnOut = <<>>

SpecFlatten == InitFlatten /\ [][FlattenAttributes]_vars

\* The terminal values of a record with their dotted paths, in order: nested
\* records are walked, everything else is terminal.
RECURSIVE RecordLeaves(_, _, _)
RecordLeaves(object, i, prev) ==
  IF i > Len(object.kids) THEN <<>>
  ELSE LET key   == object.kids[i][1]
           value == object.kids[i][2]
           path  == IF prev # "" THEN prev \o "." \o key ELSE key
       IN (IF value.type = "object" /\ Len(value.kids) > 0
           THEN RecordLeaves(value, 1, path)
           ELSE <<<<path, value>>>>)
            \o RecordLeaves(object, i + 1, prev)

\* C16: the attributes taken from a nested record are a flat mapping from
\* dotted keys to scalars: every string, number and boolean of the record is
\* there as it is, every other terminal value (an array, for one) is there as
\* its serialized string, none is dropped or left non-scalar; {a: {b: 1,
\* c: [1, 2]}} gives a.b = 1 and a.c = "[1,2]".
C16_FlattenKeepsScalarsSerializesRest ==
  (fnOut # <<>> /\ ~HasSelf(fnIn.record)) =>
    LET attrs  == fnOut[1].out
        leaves == RecordLeaves(fnIn.record, 1, "")
    IN /\ ~fnOut[1].threw
       /\ \A i \in 1..Len(attrs) : attrs[i][2].type \in {"string", "number", "boolean"}
       /\ Len(attrs) = Len(leaves)
       /\ \A i \in 1..Len(leaves) :
            /\ i <= Len(attrs)
            /\ attrs[i][2] = IF leaves[i][2].type \in {"string", "number", "boolean"}
                             THEN leaves[i][2]
                             ELSE VStr(JsonText(leaves[i][2]))
            /\ fnIn.wrapper = "task" => attrs[i][1] = "n8n.node." \o leaves[i][1]
       /\ (fnIn.wrapper = "task" /\ fnIn.record = ExampleRecord) =>
            attrs = <<<<"n8n.node.a.b", VNum("1")>>, <<"n8n.node.a.c", VStr("[1,2]")>>>>

\* C17: taking the attributes from a record ends without an exception on every
\* record, one that refers to itself included.
C17_FlattenNeverThrows ==
  fnOut # <<>> => ~fnOut[1].threw

(***************************************************************************)
(* extractNodeInput                                                        *)
(***************************************************************************)

\* v.length < 400
InputStringCap == 400

CANDIDATE_KEYS ==
  <<"text", "prompt", "input", "query", "question", "messages", "systemMessage",
    "systemPrompt", "instructions", "url">>

\* !value for a nested value
VFalsy(value) ==
  \/ value.type \in {"undefined", "null"}
  \/ value.type = "string" /\ value.v = ""
  \/ value.type = "number" /\ value.v = "0"
  \/ value.type = "boolean" /\ value.v = "false"

\* object[key]; undefined for a key the value does not have
Lookup(object, key) ==
  IF \E i \in 1..Len(object.kids) : object.kids[i][1] = key
  THEN object.kids[CHOOSE i \in 1..Len(object.kids) : object.kids[i][1] = key][2]
  ELSE VUndefined

\* the loop over CANDIDATE_KEYS, from the i-th key on
RECURSIVE CandidateEntries(_, _)
CandidateEntries(params, i) ==
  IF i > Len(CANDIDATE_KEYS) THEN <<>>
  ELSE LET key     == CANDIDATE_KEYS[i]
           options == Lookup(params, "options")
       IN (IF Lookup(params, key).type # "undefined"
           THEN <<<<key, Lookup(params, key)>>>> ELSE <<>>)
            \o (IF ~VFalsy(options) /\ Lookup(options, key).type # "undefined"
                THEN <<<<"options." \o key, Lookup(options, key)>>>> ELSE <<>>)
            \o CandidateEntries(params, i + 1)

\* typeof v === 'string' && v.length < 400, or a number, or a boolean
SmallPrimitive(entry) ==
  \/ entry[2].type = "string" /\ Len(entry[2].v) < InputStringCap
  \/ entry[2].type \in {"number", "boolean"}

\* the fallback loop over Object.entries(params)
FallbackEntries(params) == SelectSeq(params.kids, SmallPrimitive)

\* extractNodeInput with the fallback loop run whatever the first loop found.
extractNodeInputAlwaysFallback(node) ==
  IF VFalsy(node) \/ node.type \notin {"object", "array"} THEN VUndefined
  ELSE LET params == IF VFalsy(Lookup(node, "parameters")) THEN VObject(<<>>)
                     ELSE Lookup(node, "parameters")
           out    == CandidateEntries(params, 1)
                       \o SelectSeq(FallbackEntries(params),
                            LAMBDA e : \A i \in 1..Len(CANDIDATE_KEYS) :
                                          e[1] # CANDIDATE_KEYS[i])
       IN IF out = <<>> THEN VUndefined ELSE VObject(out)

extractNodeInput(node) ==
  IF VFalsy(node) \/ node.type \notin {"object", "array"} THEN VUndefined
  ELSE LET params == IF VFalsy(Lookup(node, "parameters")) THEN VObject(<<>>)
                     ELSE Lookup(node, "parameters")
           found  == CandidateEntries(params, 1)
           out    == IF found = <<>> THEN FallbackEntries(params) ELSE found
       IN IF out = <<>> THEN VUndefined ELSE VObject(out)

\* a string of n characters
RECURSIVE StringOfLength(_)
StringOfLength(n) ==
  IF n = 0 THEN ""
  ELSE IF n % 2 = 0
  THEN LET half == StringOfLength(n \div 2) IN half \o half
  ELSE "x" \o StringOfLength(n - 1)

\* a parameter the node does not have
VAbsent == [type |-> "absent", v |-> "", kids |-> <<>>]

\* the entries that are there
Present(entries) == SelectSeq(entries, LAMBDA e : e[2].type # "absent")

\* Parameter objects: candidate keys absent, set, null or undefined; options
\* with and without a candidate key; other parameters that are strings just
\* under and at the cap, a number, a boolean, an object.
ParameterSamples ==
  {VObject(Present(<<<<"model", model>>, <<"text", text>>, <<"url", url>>,
                     <<"options", options>>, <<"temperature", temperature>>,
                     <<"stream", stream>>, <<"nested", nested>>>>)) :
     model \in {VAbsent, VStr(StringOfLength(InputStringCap - 1)),
                VStr(StringOfLength(InputStringCap))},
     text \in {VAbsent, VStr("Summarize this"), VNull, VUndefined},
     url \in {VAbsent, VStr("")},
     options \in {VAbsent, VObject(<<>>), VObject(<<<<"query", VStr("q")>>>>),
                  VObject(<<<<"timeout", VNum("30")>>>>)},
     temperature \in {VAbsent, VNum("0")},
     stream \in {VAbsent, VBool("false")},
     nested \in {VAbsent, VObject(<<<<"k", VStr("v")>>>>)}}

\* executionData?.node ?? 'unknown'
NodeInputSamples ==
  {VStr("unknown"), VObject(<<<<"name", VStr("HTTP Request")>>>>),
   VObject(<<<<"parameters", VNull>>>>)}
    \cup {VObject(<<<<"name", VStr("HTTP Request")>>, <<"parameters", p>>>>) :
            p \in ParameterSamples}

\* const inputObj = extractNodeInput(node); if (inputObj) the input
\* attributes are set
CaptureNodeInput ==
  /\ fnOut = <<>>
  /\ LET inputObj == extractNodeInput(fnIn.node)
     IN fnOut' = <<[inputObj |-> inputObj, attached |-> ~VFalsy(inputObj)]>>
  /\ UNCHANGED <<fnIn, wrapVars, guardVars, clsVars>>

InitNodeInput == WrapIdle /\ GuardIdle /\ ClsIdle /\ fnIn \in [node : NodeInputSamples] /\ fnOut = <<>>

SpecNodeInput == InitNodeInput /\ [][CaptureNodeInput]_vars

\* The prompt-like keys, with their options.* forms.
PromptKeys == {CANDIDATE_KEYS[i] : i \in 1..Len(CANDIDATE_KEYS)}

\* The parameters of the node in fnIn, as a set of <<key, value>>.
ParamsOfInput ==
  LET p == Lookup(fnIn.node, "parameters")
  IN {p.kids[i] : i \in 1..Len(p.kids)}

\* C18: extractNodeInput returns the prompt-like parameters that are present,
\* with those under options.*; only when there is none, the parameters that
\* are strings under the cap, numbers or booleans; and undefined, never an
\* empty mapping, when nothing qualifies, so that no input attribute is set.
C18_ExtractNodeInput ==
  fnOut # <<>> =>
    LET out      == fnOut[1].inputObj
        got      == {out.kids[i] : i \in 1..Len(out.kids)}
        params   == ParamsOfInput
        opts     == Lookup(Lookup(fnIn.node, "parameters"), "options")
        options  == {<<"options." \o opts.kids[i][1], opts.kids[i][2]>> :
                       i \in 1..Len(opts.kids)}
        prompts  == {e \in params : e[1] \in PromptKeys /\ e[2].type # "undefined"}
                      \cup {e \in options : \E k \in PromptKeys : e[1] = "options." \o k}
        smalls   == {e \in params :
                       \/ e[2].type = "string" /\ Len(e[2].v) <= InputStringCap - 1
                       \/ e[2].type \in {"number", "boolean"}}
        expected == IF prompts # {} THEN prompts ELSE smalls
    IN /\ out.type \in {"undefined", "object"}
       /\ got = expected
       /\ Len(out.kids) = Cardinality(expected)
       /\ out.type = "undefined" <=> expected = {}
       /\ fnOut[1].attached <=> expected # {}

\* No prompt-like parameter: a string just under the cap comes back with a
\* number that is zero and a boolean that is false, the nested object does
\* not, and the attribute is set.
C18_Witness ==
  /\ fnOut # <<>>
  /\ fnOut[1].attached
  /\ Len(fnOut[1].inputObj.kids) = 3
  /\ fnOut[1].inputObj.kids[1] = <<"model", VStr(StringOfLength(InputStringCap - 1))>>
  /\ Lookup(fnOut[1].inputObj, "temperature") = VNum("0")
  /\ Lookup(fnOut[1].inputObj, "stream") = VBool("false")
  /\ Lookup(Lookup(fnIn.node, "parameters"), "nested").type = "object"

(***************************************************************************)
(* extractNodeOutput                                                       *)
(***************************************************************************)

\* jsonArray.slice(0, 10)
OutputItemsCap == 10

\* first.output || first.completion || first.text || first.result ||
\* first.response
PRIMARY_FIELDS == <<"output", "completion", "text", "result", "response">>

\* a || b || ... || undefined over the fields from the i-th on: the first
\* value that is truthy
RECURSIVE FirstTruthy(_, _)
FirstTruthy(first, i) ==
  IF i > Len(PRIMARY_FIELDS) THEN VUndefined
  ELSE IF ~VFalsy(Lookup(first, PRIMARY_FIELDS[i]))
  THEN Lookup(first, PRIMARY_FIELDS[i])
  ELSE FirstTruthy(first, i + 1)

extractNodeOutput(result, runIndex) ==
  LET outputData == Lookup(Lookup(result, "data"), IndexKey(runIndex))
  IN IF VFalsy(outputData) THEN VUndefined
     ELSE IF \E i \in 1..Len(outputData.kids) :
                outputData.kids[i][2].type \in {"null", "undefined"}
     THEN \* item.json of null: the TypeError is caught
          VObject(<<<<"_error", VStr("TypeError")>>>>)
     ELSE LET jsonArray == [i \in 1..Len(outputData.kids) |->
                              Lookup(outputData.kids[i][2], "json")]
          IN IF Len(jsonArray) = 0 THEN VUndefined
             ELSE LET first   == jsonArray[1]
                      primary == IF ~VFalsy(first) /\ first.type \in {"object", "array"}
                                 THEN FirstTruthy(first, 1)
                                 ELSE VUndefined
                  IN VObject(<<<<"primary", primary>>,
                               <<"items", VArray(Slice(jsonArray, OutputItemsCap))>>>>)

\* The first record: each primary field absent or set, output also set to the
\* empty string and to zero.
FirstRecordSamples ==
  {VObject(Present(<<<<"id", VNum("7")>>, <<"output", output>>,
                     <<"completion", completion>>, <<"text", text>>,
                     <<"result", res>>, <<"response", response>>>>)) :
     output \in {VAbsent, VStr("answer"), VStr(""), VNum("0")},
     completion \in {VAbsent, VStr("done")},
     text \in {VAbsent, VStr("hello")},
     res \in {VAbsent, VBool("false")},
     response \in {VAbsent, VObject(<<<<"status", VNum("200")>>>>)}}

\* an item of a run: {json: record}
Item(record) == VObject(<<<<"json", record>>>>)

\* a run of n items, the first with the given record, the others numbered
RunOf(first, n) ==
  VArray([i \in 1..n |-> IF i = 1 THEN Item(first)
                         ELSE Item(VObject(<<<<"n", VNum(IndexKey(i))>>>>))])

\* Results with 1, 2, 10 and 11 records for the run index, results without
\* records for it, a run holding a null item, and no result.
ResultSamples ==
  {VObject(<<<<"data", VArray(<<RunOf(first, n)>>)>>>>) :
     first \in FirstRecordSamples,
     n \in {1, 2, OutputItemsCap, OutputItemsCap + 1}}
    \cup {VUndefined, VObject(<<>>), VObject(<<<<"data", VArray(<<>>)>>>>),
          VObject(<<<<"data", VArray(<<VArray(<<>>)>>)>>>>),
          VObject(<<<<"data", VArray(<<VArray(<<VNull>>)>>)>>>>)}

NodeOutputInputs == [result : ResultSamples, runIndex : {0, 1}]

\* const extracted = extractNodeOutput(result, runIndex); if (extracted) the
\* output attributes are set
CaptureNodeOutput ==
  /\ fnOut = <<>>
  /\ LET extracted == extractNodeOutput(fnIn.result, fnIn.runIndex)
     IN fnOut' = <<[extracted |-> extracted, attached |-> ~VFalsy(extracted)]>>
  /\ UNCHANGED <<fnIn, wrapVars, guardVars, clsVars>>

InitNodeOutput == WrapIdle /\ GuardIdle /\ ClsIdle /\ fnIn \in NodeOutputInputs /\ fnOut = <<>>

SpecNodeOutput == InitNodeOutput /\ [][CaptureNodeOutput]_vars

\* The records of the result in fnIn for its run index, as a sequence.
RecordsOfInput ==
  LET run == Lookup(Lookup(fnIn.result, "data"), IndexKey(fnIn.runIndex))
  IN [i \in 1..Len(run.kids) |-> Lookup(run.kids[i][2], "json")]

\* C19: for a result with records for the run index, extractNodeOutput
\* returns {primary, items}: primary is the value, whatever it is, of the first
\* of output, completion, text, result, response that the first record has,
\* and items are the first min(10, n) records as they are, in order; without
\* records for the run index it returns undefined.
C19_ExtractNodeOutput ==
  fnOut # <<>> =>
    LET out     == fnOut[1].extracted
        records == RecordsOfInput
        proper  == \A i \in 1..Len(records) : records[i].type = "object"
        had     == {i \in 1..Len(PRIMARY_FIELDS) :
                      \E k \in 1..Len(records[1].kids) :
                         records[1].kids[k][1] = PRIMARY_FIELDS[i]}
        n       == IF Len(records) < OutputItemsCap THEN Len(records)
                   ELSE OutputItemsCap
    IN /\ Len(records) = 0 => out = VUndefined
       /\ (Len(records) > 0 /\ proper) =>
            /\ Lookup(out, "primary") =
                 IF had = {} THEN VUndefined
                 ELSE Lookup(records[1], PRIMARY_FIELDS[MinOf(had)])
            /\ Len(Lookup(out, "items").kids) = n
            /\ \A i \in 1..n : Lookup(out, "items").kids[i][2] = records[i]

(***************************************************************************)
(* safeJSONStringify and truncateIO                                        *)
(***************************************************************************)

\* process.env.TRACING_MAX_IO_CHARS || '12000'
DefaultMaxIoChars == 12000

\* MAX_IO_CHARS = parseInt(process.env.TRACING_MAX_IO_CHARS || '12000', 10),
\* for a variable that is unset, empty or a decimal number
MAX_IO_CHARS(env) ==
  CASE env \in {"unset", ""} -> DefaultMaxIoChars
    [] env = "0"  -> 0
    [] env = "5"  -> 5
    [] env = "12" -> 12

\* JSON.stringify throws a TypeError on a structure that refers to itself;
\* the catch block serializes {_serializationError: String(e)}
safeJSONStringify(obj) ==
  IF HasSelf(obj)
  THEN [threw |-> FALSE,
        value |-> JSONstringify(VObject(<<<<"_serializationError",
                    VStr("TypeError: Converting circular structure to JSON")>>>>))]
  ELSE [threw |-> FALSE, value |-> JSONstringify(obj)]

\* truncateIO with < for <=.
truncateIOStrict(str, cap) ==
  IF str.type \in {"undefined", "null"} THEN ""
  ELSE IF Len(str.v) < cap THEN str.v
  ELSE SubSeq(str.v, 1, cap) \o "...[truncated " \o ToString(Len(str.v) - cap)
         \o " chars]"

\* truncateIO(str) with MAX_IO_CHARS = cap, for a string, undefined or null
truncateIO(str, cap) ==
  IF str.type \in {"undefined", "null"} THEN ""
  ELSE IF Len(str.v) <= cap THEN str.v
  ELSE SubSeq(str.v, 1, cap) \o "...[truncated " \o ToString(Len(str.v) - cap)
         \o " chars]"

\* Values whose serialization is shorter than, as long as and longer than each
\* cap, a record that refers to itself, and undefined.
IoValueSamples ==
  {VUndefined, VStr(""), VStr("hello world"), VNum("12345"), VNum("123456"),
   ExampleRecord, VObject(<<<<"a", VNum("1")>>, <<"self", VSelf>>>>)}
    \cup {VStr(StringOfLength(n)) :
            n \in {2, 3, 4, 9, 10, 11, DefaultMaxIoChars - 3, DefaultMaxIoChars - 2,
                   DefaultMaxIoChars - 1, 2 * DefaultMaxIoChars}}

IoInputs == [env : {"unset", "", "0", "5", "12"}, value : IoValueSamples]

\* truncateIO(safeJSONStringify(value)), as both wrappers call it
SerializeAndTruncate ==
  /\ fnOut = <<>>
  /\ LET serialized == safeJSONStringify(fnIn.value)
     IN fnOut' = <<[serialized |-> serialized,
                    text |-> IF serialized.threw THEN ""
                             ELSE truncateIO(serialized.value, MAX_IO_CHARS(fnIn.env))]>>
  /\ UNCHANGED <<fnIn, wrapVars, guardVars, clsVars>>

InitIo == WrapIdle /\ GuardIdle /\ ClsIdle /\ fnIn \in IoInputs /\ fnOut = <<>>

SpecIo == InitIo /\ [][SerializeAndTruncate]_vars

TruncationMark == "...[truncated "

\* C20: serializing for I/O capture never throws, a value that cannot be
\* serialized gives the JSON text of an object describing the failure; and
\* truncating the string s at the cap C gives s when s has at most C
\* characters, otherwise the first C characters of s followed by
\* ...[truncated N chars] with N the length of s less C.
C20_SerializeNeverThrowsTruncateMarks ==
  fnOut # <<>> =>
    LET serialized == fnOut[1].serialized
        text       == fnOut[1].text
        C          == MAX_IO_CHARS(fnIn.env)
    IN /\ ~serialized.threw
       /\ HasSelf(fnIn.value) =>
            /\ serialized.value.type = "string"
            /\ SubSeq(serialized.value.v, 1, 24) = "{\"_serializationError\":\""
       /\ serialized.value.type = "string" =>
            LET s == serialized.value.v
                N == Len(s) - C
            IN /\ Len(s) <= C => text = s
               /\ Len(s) > C =>
                    /\ Len(text) = C + Len(TruncationMark) + Len(ToString(N)) + Len(" chars]")
                    /\ \A i \in 1..C : SubSeq(text, i, i) = SubSeq(s, i, i)
                    /\ SubSeq(text, C + 1, Len(text))
                         = TruncationMark \o ToString(N) \o " chars]"

\* The number 123456 serializes to six characters; at the cap of 5 it is cut
\* to its first five characters and marked with the one removed.
C20_Witness ==
  /\ fnOut # <<>>
  /\ fnIn.env = "5"
  /\ fnIn.value = VNum("123456")
  /\ fnOut[1].text = "12345...[truncated 1 chars]"

(***************************************************************************)
(* truncateIO applied to its own result                                    *)
(***************************************************************************)

\* Strings shorter than, as long as and longer than each cap.
TruncateInputs ==
  [env : {"unset", "0", "5", "12"},
   str : {VStr(""), VStr("hello"), VStr("123456"), VStr("hello world"),
          VStr("hello world!"), VStr("hello world!!")}
           \cup {VStr(StringOfLength(n)) :
                   n \in {1, 4, 6, 13, 40, DefaultMaxIoChars - 1, DefaultMaxIoChars,
                          DefaultMaxIoChars + 1, 2 * DefaultMaxIoChars}}]

\* truncateIO(str)
Truncate ==
  /\ fnOut = <<>>
  /\ fnOut' = <<truncateIO(fnIn.str, MAX_IO_CHARS(fnIn.env))>>
  /\ UNCHANGED <<fnIn, wrapVars, guardVars, clsVars>>

\* truncateIO of the string the first call returned
TruncateAgain ==
  /\ Len(fnOut) = 1
  /\ fnOut' = Append(fnOut, truncateIO(VStr(fnOut[1]), MAX_IO_CHARS(fnIn.env)))
  /\ UNCHANGED <<fnIn, wrapVars, guardVars, clsVars>>

InitTruncate == WrapIdle /\ GuardIdle /\ ClsIdle /\ fnIn \in TruncateInputs /\ fnOut = <<>>

SpecTruncate == InitTruncate /\ [][Truncate \/ TruncateAgain]_vars

\* C21: truncation is idempotent: truncating the result of a truncation at the
\* same cap returns it unchanged, without a second suffix.
C21_TruncateIdempotent ==
  Len(fnOut) = 2 => fnOut[2] = fnOut[1]

(***************************************************************************)
(* The attributes the runNode wrapper derives from a node's input and      *)
(* output                                                                  *)
(***************************************************************************)

\* The attributes set on the node span inside the startActiveSpan callback, as
\* a set of <<key, value>> pairs: the input attributes before the original
\* runs (698-711), the output attributes after it returned (722-742). An item
\* that is null makes item.json throw: the catch block of 740 leaves the span
\* without output attributes. setAttribute ignores a value of undefined.
nodeIoAttributes(CAPTURE_IO, node, result, runIndex, cap) ==
  LET inputObj   == extractNodeInput(node)
      inputStr   == truncateIO(safeJSONStringify(inputObj).value, cap)
      input      == IF CAPTURE_IO /\ ~VFalsy(inputObj)
                    THEN {<<"langfuse.observation.input", inputStr>>,
                          <<"gen_ai.prompt", inputStr>>}
                    ELSE {}
      outputData == Lookup(Lookup(result, "data"), IndexKey(runIndex))
      noData     == outputData.type \in {"null", "undefined"}
      mapThrows  == /\ ~noData
                    /\ \E i \in 1..Len(outputData.kids) :
                         outputData.kids[i][2].type \in {"null", "undefined"}
      finalJson  == IF noData THEN VUndefined
                    ELSE VArray([i \in 1..Len(outputData.kids) |->
                                   Lookup(outputData.kids[i][2], "json")])
      outputJson == JSONstringify(finalJson)
      extracted  == extractNodeOutput(result, runIndex)
      outputStr  == truncateIO(safeJSONStringify(extracted).value, cap)
      output     == IF mapThrows THEN {}
                    ELSE (IF outputJson.type = "undefined" THEN {}
                          ELSE {<<"n8n.node.output_json", outputJson.v>>})
                           \cup (IF CAPTURE_IO /\ ~VFalsy(extracted)
                                 THEN {<<"langfuse.observation.output", outputStr>>,
                                       <<"gen_ai.completion", outputStr>>}
                                 ELSE {})
  IN input \cup output

\* Nodes that differ in their prompt-like parameters only.
TaskNodeSamples ==
  {VStr("unknown")}
    \cup {VObject(<<<<"name", VStr("Agent")>>, <<"parameters", VObject(p)>>>>) :
            p \in {<<>>, <<<<"text", VStr("Summarize this")>>>>,
                   <<<<"text", VStr("Translate this")>>>>}}

\* Results that differ in their records only, a run holding a null item, a
\* result without runs and no result.
TaskResultSamples ==
  {VObject(<<<<"data", VArray(<<RunOf(VObject(<<<<"output", VStr(o)>>>>), n)>>)>>>>) :
     o \in {"yes", "no"}, n \in {1, 2}}
    \cup {VUndefined, VObject(<<<<"data", VArray(<<>>)>>>>),
          VObject(<<<<"data", VArray(<<VArray(<<VNull>>)>>)>>>>)}

\* Two invocations that differ in the result only, or in the node only.
TaskPairs ==
  {[CAPTURE_IO |-> c, runIndex |-> r,
    runs |-> <<[node |-> n1, result |-> r1], [node |-> n2, result |-> r2]>>] :
     c \in BOOLEAN, r \in {0, 1},
     n1 \in TaskNodeSamples, n2 \in TaskNodeSamples,
     r1 \in TaskResultSamples, r2 \in TaskResultSamples}

\* One invocation of the runNode wrapper, from the input capture to the output
\* attributes: fnOut collects the I/O attributes of each node span.
RunNodeCapture ==
  /\ Len(fnOut) < Len(fnIn.runs)
  /\ LET run == fnIn.runs[Len(fnOut) + 1]
     IN fnOut' = Append(fnOut, nodeIoAttributes(fnIn.CAPTURE_IO, run.node, run.result,
                                                 fnIn.runIndex, DefaultMaxIoChars))
  /\ UNCHANGED <<fnIn, wrapVars, guardVars, clsVars>>

InitCapture ==
  /\ WrapIdle /\ GuardIdle /\ ClsIdle /\ fnOut = <<>>
  /\ fnIn \in {p \in TaskPairs : \/ p.runs[1].node = p.runs[2].node
                                 \/ p.runs[1].result = p.runs[2].result}

SpecCapture == InitCapture /\ [][RunNodeCapture]_vars

\* C22: with CAPTURE_IO off, two invocations that differ only in the result
\* of the original runNode, or only in the node's prompt-like parameters, leave
\* the same attributes derived from input and output on their node spans.
C22_NoIoAttributesWhenCaptureOff ==
  (~fnIn.CAPTURE_IO /\ Len(fnOut) = 2) => fnOut[1] = fnOut[2]

(***************************************************************************)
(* The rename of the HTTP root span on entry of processRunExecutionData    *)
(***************************************************************************)

\* /^(GET|POST|PUT|PATCH|DELETE|HEAD|OPTIONS)$/i.test(activeParent.name || '')
nameLooksHttpVerb(name) ==
  ToLowerCase(name)
    \in {<<"g", "e", "t">>, <<"p", "o", "s", "t">>, <<"p", "u", "t">>, <<"p", "a", "t", "c", "h">>, <<"d", "e", "l", "e", "t", "e">>, <<"h", "e", "a", "d">>, <<"o", "p", "t", "i", "o", "n", "s">>}

\* activeParent.attributes && (attributes['http.method'] ||
\* attributes['http.request.method']), as a condition
httpMethodAttr(attributes) ==
  \E k \in {"http.method", "http.request.method"} :
    k \in DOMAIN attributes /\ ~Falsy(attributes[k])

\* if (activeParent && !ONLY_WORKFLOW_SPANS) ... if (httpMethodAttr ||
\* nameLooksHttpVerb)
RenameFires(cfg, activeParent) ==
  /\ activeParent.present
  /\ ~cfg.ONLY_WORKFLOW_SPANS
  /\ httpMethodAttr(activeParent.attributes) \/ nameLooksHttpVerb(activeParent.name)

\* workflowAttributes: the four identifiers and the settings, each setting
\* under n8n.workflow.settings.<key>. The settings here have one level and
\* scalar values, which flatten keeps as they are.
workflowAttributes(wf) ==
  LET settings == {<<"n8n.workflow.settings." \o s, wf.settings[s]>> :
                     s \in DOMAIN wf.settings}
      ids      == {<<"n8n.workflow.id", wf.id>>, <<"n8n.workflow.name", wf.name>>,
                   <<"n8n.execution.id", wf.executionId>>,
                   <<"n8n.session.id", deriveSessionId(wf.executionId)>>}
      entries  == ids \cup settings
  IN [k \in {e[1] : e \in entries} |-> (CHOOSE e \in entries : e[1] = k)[2]]

\* newRootName
newRootName(cfg, wf) ==
  IF cfg.DYNAMIC_WORKFLOW_TRACE_NAME
  THEN sanitizeSegment(wf.id, <<"w", "f">>) \o <<"-">>
         \o sanitizeSegment(wf.name, <<"w", "o", "r", "k", "f", "l", "o", "w">>) \o <<"-">>
         \o sanitizeSegment(wf.executionId, <<"e", "x", "e", "c">>)
  ELSE <<"n", "8", "n", ".", "w", "o", "r", "k", "f", "l", "o", "w", ".", "r", "e", "q", "u", "e", "s", "t">>

\* The body of the heuristic (465-501): updateName, setAttribute of every
\* workflow attribute the span does not have, then setAttribute of
\* n8n.http.original_name and of n8n.trace.naming, which overwrite.
renameHttpRoot(cfg, activeParent, wf) ==
  IF ~RenameFires(cfg, activeParent) THEN activeParent
  ELSE [activeParent EXCEPT
          !.name = newRootName(cfg, wf),
          !.attributes =
             ("n8n.trace.naming" :>
                 IF cfg.DYNAMIC_WORKFLOW_TRACE_NAME THEN JsString(<<"d", "y", "n", "a", "m", "i", "c">>)
                 ELSE JsString(<<"c", "o", "n", "s", "t", "a", "n", "t">>))
               @@ ("n8n.http.original_name" :> JsString(activeParent.name))
               @@ activeParent.attributes
               @@ workflowAttributes(wf)]

NoAttributes == [k \in {} |-> JsUndefined]

\* The span that is active when the workflow run is entered: none, the span
\* of the HTTP server instrumentation (named by its verb, with or without the
\* method attribute of either convention), a span of another kind, and an HTTP
\* span that already has a workflow id.
ParentSamples ==
  {[present |-> FALSE, name |-> <<>>, attributes |-> NoAttributes]}
    \cup [present : {TRUE},
          name : {<<"P", "O", "S", "T">>, <<"g", "e", "t">>, <<"m", "i", "d", "d", "l", "e", "w", "a", "r", "e">>},
          attributes : {NoAttributes,
                        "http.method" :> JsString(<<"P", "O", "S", "T">>),
                        "http.request.method" :> JsString(<<"G", "E", "T">>),
                        ("http.method" :> JsString(<<"P", "O", "S", "T">>))
                          @@ ("n8n.workflow.id" :> JsString(<<"o", "t", "h", "e", "r">>))}]

WorkflowSamples ==
  {[id |-> JsString(<<"w", "f", " ", "1">>), name |-> JsString(<<"M", "y", " ", "F", "l", "o", "w", "!">>), executionId |-> JsString(<<"4", "1">>),
    settings |-> NoAttributes],
   [id |-> JsString(<<"w", "f", " ", "2">>), name |-> JsString(<<>>), executionId |-> JsString(<<"u", "n", "k", "n", "o", "w", "n">>),
    settings |-> "timezone" :> JsString(<<"U", "T", "C">>)],
   [id |-> JsString(<<>>), name |-> JsString(<<"s", "u", "b">>), executionId |-> JsString(<<"4", "2">>),
    settings |-> "executionOrder" :> JsString(<<"v", "1">>)]}

\* A workflow run is entered while the span last left by the heuristic is the
\* active one; fnOut keeps the span as each entry found it and left it.
WfEntryRename ==
  /\ Len(fnOut) <= Len(fnIn.workflows)
  /\ fnOut' = Append(fnOut, renameHttpRoot(fnIn.cfg, fnOut[Len(fnOut)],
                                           fnIn.workflows[Len(fnOut)]))
  /\ UNCHANGED <<fnIn, wrapVars, guardVars, clsVars>>

InitRename ==
  /\ WrapIdle /\ GuardIdle /\ ClsIdle
  /\ fnIn \in [cfg : [ONLY_WORKFLOW_SPANS : BOOLEAN, DYNAMIC_WORKFLOW_TRACE_NAME : BOOLEAN],
               activeParent : ParentSamples,
               workflows : [1..MaxEntries -> WorkflowSamples]]
  /\ fnOut = <<fnIn.activeParent>>

SpecRename == InitRename /\ [][WfEntryRename]_vars

\* the first entry at which the heuristic fired, among the first i
FirstRenamed(i) ==
  CHOOSE j \in 1..i : /\ RenameFires(fnIn.cfg, fnOut[j])
                      /\ \A h \in 1..(j - 1) : ~RenameFires(fnIn.cfg, fnOut[h])

\* C23: whenever the heuristic fires on an entry, every attribute the parent
\* span had keeps its value, every workflow attribute is on the span
\* afterwards, and n8n.http.original_name holds the name the span had before
\* the first rename.
C23_RenameKeepsAttributesAndOriginalName ==
  \A i \in 1..(Len(fnOut) - 1) :
    RenameFires(fnIn.cfg, fnOut[i]) =>
      /\ \A k \in DOMAIN fnOut[i].attributes :
           fnOut[i + 1].attributes[k] = fnOut[i].attributes[k]
      /\ DOMAIN workflowAttributes(fnIn.workflows[i]) \subseteq DOMAIN fnOut[i + 1].attributes
      /\ fnOut[i + 1].attributes["n8n.http.original_name"]
           = JsString(fnOut[FirstRenamed(i)].name)

(***************************************************************************)
(* The uncaughtException handler                                           *)
(***************************************************************************)

\* What was thrown: an Error, a primitive other than null and undefined
\* (err.message is undefined), or null or undefined (err.message throws).
ThrownSamples == {"Error", "primitive", "nullish"}

\* The process when the exception is raised: the spans that are open, which
\* of them is the active one (0: none), how sdk.forceFlush() settles, and
\* whether the object required from @opentelemetry/sdk-node (38) has a member
\* trace, which depends on the installed package.
UncaughtInputs ==
  {i \in [err : ThrownSamples, open : 0..MaxOpenSpans, active : 0..MaxOpenSpans,
          flush : {"resolves", "rejects"}, traceMember : BOOLEAN] :
     i.active <= i.open}

\* process.on('uncaughtException', async (err) => { ... up to the await:
\* the two log calls, getActiveSpan, recordException and setStatus. Reading
\* opentelemetry.trace.getActiveSpan of a missing member, or err.message of
\* null, throws a TypeError inside the async handler: its promise rejects, the
\* rest of the handler does not run, and the process stays alive because an
\* uncaughtException listener is installed.
HandlerRecord ==
  /\ fnOut.pc = "raised"
  /\ LET a == fnIn.active
     IN IF ~fnIn.traceMember
        THEN fnOut' = [fnOut EXCEPT !.pc = "rejected"]
        ELSE IF a = 0
        THEN fnOut' = [fnOut EXCEPT !.pc = "flush"]
        ELSE IF fnIn.err = "nullish"
        THEN fnOut' = [fnOut EXCEPT !.pc = "rejected",
                         !.steps = Append(@, "recordException")]
        ELSE fnOut' = [fnOut EXCEPT !.pc = "flush",
                         !.spans[a] = RecordError(@),
                         !.steps = Append(@, "record")]
  /\ UNCHANGED <<fnIn, wrapVars, guardVars, clsVars>>

\* try { await sdk.forceFlush() } catch (flushErr) { logger.error(...) }
HandlerFlush ==
  /\ fnOut.pc = "flush"
  /\ fnOut' = [fnOut EXCEPT !.pc = "flushed",
                 !.steps = Append(@, IF fnIn.flush = "rejects" THEN "flushFailed"
                                     ELSE "flush"),
                 !.flushed = {i \in 1..Len(fnOut.spans) : fnOut.spans[i].ends > 0}]
  /\ UNCHANGED <<fnIn, wrapVars, guardVars, clsVars>>

\* process.exit(1), once the flush has resolved or its rejection was logged
HandlerExit ==
  /\ fnOut.pc = "flushed"
  /\ fnOut' = [fnOut EXCEPT !.pc = "exited", !.steps = Append(@, "exit")]
  /\ UNCHANGED <<fnIn, wrapVars, guardVars, clsVars>>

\* The state in which the uncaughtException event is emitted: the open spans
\* are those the wrappers started and have not ended.
InitUncaught ==
  /\ WrapIdle /\ GuardIdle /\ ClsIdle
  /\ fnIn \in UncaughtInputs
  /\ fnOut = [pc |-> "raised", steps |-> <<>>, flushed |-> {},
              spans |-> [i \in 1..fnIn.open |->
                           NewSpan(IF i = 1 THEN "wf" ELSE "task", i, i - 1)]]

SpecUncaught == InitUncaught /\ [][HandlerRecord \/ HandlerFlush \/ HandlerExit]_vars

\* C24: the handler records the exception with error status on the active
\* span if there is one, then attempts the flush, then terminates the process,
\* in this order, and it always gets as far as the termination: it never stops
\* before process.exit.
C24_HandlerRecordsFlushesExits ==
  /\ fnOut.pc # "rejected"
  /\ fnOut.pc = "exited" =>
       /\ fnOut.steps = (IF fnIn.active = 0 THEN <<>> ELSE <<"record">>)
                          \o <<IF fnIn.flush = "rejects" THEN "flushFailed" ELSE "flush",
                               "exit">>
       /\ fnIn.active # 0 =>
            /\ fnOut.spans[fnIn.active].status = "error"
            /\ fnOut.spans[fnIn.active].exc = 1

\* C25: when the process terminates, every span that was open at the
\* exception has been ended, and was ended before the flush.
C25_OpenSpansEndedBeforeExit ==
  fnOut.pc = "exited" =>
    \A i \in 1..Len(fnOut.spans) : fnOut.spans[i].ends = 1 /\ i \in fnOut.flushed

(***************************************************************************)
(* getEnv and processOtelEnvironmentVariables                              *)
(***************************************************************************)

QuoteChars == {"'", "\""}

\* value.replace(/^['"]|['"]$/g, ''): a quote character at the start is
\* removed, and a quote character at the end of what is left of it
StripQuotes(value) ==
  LET head == IF Len(value) > 0 /\ value[1] \in QuoteChars THEN Tail(value)
              ELSE value
  IN IF Len(head) > 0 /\ head[Len(head)] \in QuoteChars
     THEN SubSeq(head, 1, Len(head) - 1)
     ELSE head

\* The value without one layer of surrounding quote characters: a value that
\* has a quote character at both ends loses them, any other value is kept.
StripQuotesPaired(value) ==
  IF Len(value) >= 2 /\ value[1] \in QuoteChars /\ value[Len(value)] \in QuoteChars
  THEN SubSeq(value, 2, Len(value) - 1)
  ELSE value

\* getEnv(key, defaultValue = '', required = true) on the environment env
getEnv(env, key, defaultValue, required) ==
  LET value == IF key \in DOMAIN env THEN env[key] ELSE defaultValue
  IN IF value = <<>> /\ required
     THEN [threw |-> TRUE, value |-> <<>>]
     ELSE [threw |-> FALSE,
           value |-> IF value # <<>> THEN StripQuotes(value) ELSE defaultValue]

\* key.startsWith('OTEL_')
HasOtelPrefix(key) == Len(key) >= 5 /\ SubSeq(key, 1, 5) = "OTEL_"

\* if (!process.env.X && !process.env.Y) process.env.X = '30000'
WithDefault(env, key, other) ==
  IF \A k \in {key, other} : k \notin DOMAIN env \/ env[k] = <<>>
  THEN (key :> <<"3", "0", "0", "0", "0">>) @@ env
  ELSE env

\* processOtelEnvironmentVariables(): the loop calls getEnv(key, undefined,
\* false), where undefined selects the default '' of the parameter, and writes
\* the result back unless getEnv threw; then the two timeouts get their default.
processOtelEnvironmentVariables(env) ==
  LET cleaned == [key \in DOMAIN env |->
                    IF HasOtelPrefix(key)
                    THEN LET cleanValue == getEnv(env, key, <<>>, FALSE)
                         IN IF cleanValue.threw THEN env[key] ELSE cleanValue.value
                    ELSE env[key]]
      first   == WithDefault(cleaned, "OTEL_EXPORTER_OTLP_TIMEOUT",
                             "OTEL_EXPORTER_OTLP_TRACES_TIMEOUT")
  IN WithDefault(first, "OTEL_BSP_EXPORT_TIMEOUT", "OTEL_BSP_EXPORT_TIMEOUT")

\* Values: empty, plain, in double and in single quotes, in two layers of
\* quotes, with a quote character inside, and with a quote character at one
\* end only.
EnvValueSamples ==
  {<<>>, <<"a", "b", "c">>, <<"\"", "a", "b", "c", "\"">>, <<"'", "a", "b", "c", "'">>, <<"\"", "\"", "a", "b", "c", "\"", "\"">>, <<"a", "\"", "b">>, <<"k", "=", "\"", "v", "\"">>, <<"'", "a", "b", "c">>}

\* Environments: two OTEL_ keys, one of them a timeout, and a key without
\* the prefix, each unset or set.
EnvSamples ==
  UNION {[keys -> EnvValueSamples] :
           keys \in SUBSET {"OTEL_SERVICE_NAME", "OTEL_BSP_EXPORT_TIMEOUT", "N8N_OTEL_NAME"}}

ProcessOtelEnvironmentVariables ==
  /\ fnOut = <<>>
  /\ fnOut' = <<processOtelEnvironmentVariables(fnIn)>>
  /\ UNCHANGED <<fnIn, wrapVars, guardVars, clsVars>>

InitEnv == WrapIdle /\ GuardIdle /\ ClsIdle /\ fnIn \in EnvSamples /\ fnOut = <<>>

SpecEnv == InitEnv /\ [][ProcessOtelEnvironmentVariables]_vars

\* the keys that get a default when they are empty
TimeoutKeys == {"OTEL_EXPORTER_OTLP_TIMEOUT", "OTEL_BSP_EXPORT_TIMEOUT"}

\* C26: after normalization every OTEL_ key whose value was surrounded by
\* quote characters has lost one layer of them, every other OTEL_ value, the
\* empty one included, is what it was, and so is every key without the prefix.
\* The two timeouts, which get a default afterwards, are left aside.
C26_OtelQuotesStripped ==
  fnOut # <<>> =>
    \A key \in DOMAIN fnIn \ TimeoutKeys :
      fnOut[1][key] = IF HasOtelPrefix(key) THEN StripQuotesPaired(fnIn[key])
                      ELSE fnIn[key]

(***************************************************************************)
(* The status of a span when it is closed (wrappers, under Spec)           *)
(***************************************************************************)

filterMode(attachmentFilter) ==
  IF attachmentFilter.filterMode \in {"unset", ""} THEN "include"
  ELSE attachmentFilter.filterMode

\* typeof attachmentFilter.extensions === 'string' ? extensions.split(',')
\* .map(e => e.trim().toLowerCase()).filter(e => !!e) : []; parts are the
\* pieces between the commas
extensions(attachmentFilter) ==
  IF ~attachmentFilter.extensions.isString THEN {}
  ELSE {ToLowerCase(Trim(attachmentFilter.extensions.parts[n])) :
          n \in 1..Len(attachmentFilter.extensions.parts)} \ {<<>>}

\* path.extname(name): the name from its last dot on, or '' when it has no
\* dot or only a leading one
extname(name) ==
  LET dots == {n \in 2..Len(name) : name[n] = "."}
  IN IF dots = {} THEN <<>>
     ELSE SubSeq(name, CHOOSE n \in dots : \A m \in dots : m <= n, Len(name))

\* binaryData.fileName || `item_${i}_binary`
currentFilename(binaryData, i) ==
  IF binaryData.fileName = <<>>
  THEN <<"i", "t", "e", "m", "_">> \o <<Digits[i + 1]>> \o <<"_", "b", "i", "n", "a", "r", "y">>
  ELSE binaryData.fileName

\* path.extname(currentFilename).substring(1).toLowerCase()
currentExtension(filename) ==
  LET ext == extname(filename)
  IN ToLowerCase(IF ext = <<>> THEN <<>> ELSE Tail(ext))

\* filterMode === 'include' ? extensions.includes(currentExtension)
\*                          : !extensions.includes(currentExtension)
shouldProcess(attachmentFilter, ext) ==
  IF filterMode(attachmentFilter) = "include"
  THEN ext \in extensions(attachmentFilter)
  ELSE ext \notin extensions(attachmentFilter)

\* something is thrown while item i is handled
Thrown(run) == [run EXCEPT !.failed = @ \cup {run.i}]

\* catch (error) { successData.push({json: {..., itemIndex: i}, error, itemIndex: i}); continue }
ItemCatch(run) == [run EXCEPT !.errors = Append(@, run.i)]

\* A cleanup that is skipped when the item failed.
ItemFinallyAfterSuccess(run, unlink) ==
  IF run.i \notin run.files \/ run.i \in run.failed THEN run
  ELSE IF unlink = "ok" THEN [run EXCEPT !.files = @ \ {run.i}]
  ELSE [run EXCEPT !.undeleted = @ \cup {run.i},
                   !.issues = Append(@, <<"deleteFailed", run.i>>)]

\* finally: if (tempFilePath && fs.existsSync(tempFilePath)) unlinkSync; a
\* failure of unlinkSync is logged and pushed to processingIssues
ItemFinally(run, unlink) ==
  IF run.i \notin run.files THEN run
  ELSE IF unlink = "ok" THEN [run EXCEPT !.files = @ \ {run.i}]
  ELSE [run EXCEPT !.undeleted = @ \cup {run.i},
                   !.issues = Append(@, <<"deleteFailed", run.i>>)]

\* i++ of the for loop
NextItem(run) == [run EXCEPT !.i = @ + 1, !.pc = "loop"]

\* An iteration up to `await this.helpers.getBinaryDataBuffer(...)`: the
\* attachment filter, which reads binaryData.fileName outside the try block
\* of the item (a TypeError when the property is missing: the run ends), and
\* the check for binary data inside it.
DocItemStart ==
  /\ fnOut.pc = "loop" /\ fnOut.i < Len(fnIn.items)
  /\ LET item == fnIn.items[fnOut.i + 1]
         ext  == currentExtension(currentFilename(item, fnOut.i))
     IN fnOut' =
          IF item.binary = "other"
          THEN [Thrown(fnOut) EXCEPT !.pc = "aborted"]
          ELSE IF item.binary = "present" /\ ~shouldProcess(fnIn.attachmentFilter, ext)
          THEN NextItem([fnOut EXCEPT !.issues = Append(@, <<"skipped", fnOut.i>>)])
          ELSE IF item.binary = "none"
          THEN NextItem(ItemFinally(ItemCatch(Thrown(fnOut)), "ok"))
          ELSE [fnOut EXCEPT !.pc = "buffer"]
  /\ UNCHANGED <<fnIn, wrapVars, guardVars, clsVars>>

\* getBinaryDataBuffer settles; on success the temporary file is written and
\* the library is called. A failed writeFileSync may leave a file behind.
DocBufferSettles ==
  /\ fnOut.pc = "buffer"
  /\ \E buffer \in {"ok", "fails"}, write \in {"ok", "fails", "failsPartial"},
        unlink \in {"ok", "fails"} :
       fnOut' =
         IF buffer = "fails"
         THEN NextItem(ItemFinally(ItemCatch(Thrown(fnOut)), unlink))
         ELSE IF write = "ok"
         THEN [fnOut EXCEPT !.files = @ \cup {fnOut.i}, !.handed = @ \cup {fnOut.i},
                            !.pc = "library"]
         ELSE NextItem(ItemFinally(ItemCatch(Thrown(
                [fnOut EXCEPT !.files = IF write = "failsPartial"
                                        THEN @ \cup {fnOut.i} ELSE @])), unlink))
  /\ UNCHANGED <<fnIn, wrapVars, guardVars, clsVars>>

\* limescapeDocs({...}) settles: the result is aggregated, or the catch block
\* pushes the error record; the finally block cleans up.
DocLibrarySettles ==
  /\ fnOut.pc = "library"
  /\ \E result \in {"ok", "throws"}, unlink \in {"ok", "fails"} :
       fnOut' = NextItem(ItemFinally(
                  IF result = "ok" THEN [fnOut EXCEPT !.processed = @ + 1]
                  ELSE ItemCatch(Thrown(fnOut)), unlink))
  /\ UNCHANGED <<fnIn, wrapVars, guardVars, clsVars>>

\* the loop is over: the aggregated output is pushed and execute returns
DocReturn ==
  /\ fnOut.pc = "loop" /\ fnOut.i = Len(fnIn.items)
  /\ fnOut' = [fnOut EXCEPT !.pc = "returned"]
  /\ UNCHANGED <<fnIn, wrapVars, guardVars, clsVars>>

\* The parameter as the editor saves it: the default {} (417-422), a mode
\* with a list, a list without a mode, a mode without a list.
FilterSamples ==
  {[filterMode |-> "unset", extensions |-> [isString |-> FALSE, parts |-> <<>>]],
   [filterMode |-> "include",
    extensions |-> [isString |-> TRUE, parts |-> <<<<"p", "d", "f">>, <<" ", "D", "O", "C", "X">>>>]],
   [filterMode |-> "exclude",
    extensions |-> [isString |-> TRUE, parts |-> <<<<"p", "d", "f">>, <<>>>>]],
   [filterMode |-> "unset",
    extensions |-> [isString |-> TRUE, parts |-> <<<<"p", "d", "f">>>>]],
   [filterMode |-> "exclude", extensions |-> [isString |-> FALSE, parts |-> <<>>]]}

ItemSamples ==
  {[binary |-> "none", fileName |-> <<>>], [binary |-> "other", fileName |-> <<>>]}
    \cup [binary : {"present"},
          fileName : {<<"a", ".", "p", "d", "f">>, <<"b", ".", "E", "X", "E">>, <<>>}]

InitDocs ==
  /\ WrapIdle /\ GuardIdle /\ ClsIdle
  /\ fnIn \in [attachmentFilter : FilterSamples,
               items : UNION {[1..n -> ItemSamples] : n \in 1..MaxItems}]
  /\ fnOut = [pc |-> "loop", i |-> 0, files |-> {}, undeleted |-> {},
              errors |-> <<>>, issues |-> <<>>, handed |-> {}, processed |-> 0,
              failed |-> {}]

SpecDocs ==
  InitDocs /\ [][DocItemStart \/ DocBufferSettles \/ DocLibrarySettles \/ DocReturn]_vars

\* the error records that carry itemIndex k
ErrorRecords(k) == Cardinality({n \in 1..Len(fnOut.errors) : fnOut.errors[n] = k})

\* C28: a failure while handling an item never ends the run; every item the
\* loop is done with has exactly one error record of its index if its handling
\* failed and none otherwise, and the loop gets to every item.
C28_ItemFailureIsolated ==
  /\ fnOut.pc # "aborted"
  /\ \A k \in 0..(fnOut.i - 1) : ErrorRecords(k) = IF k \in fnOut.failed THEN 1 ELSE 0
  /\ fnOut.pc = "returned" => fnOut.i = Len(fnIn.items)

\* C29 as stated: whenever an item starts and when execute returns no
\* temporary file exists, and there is never more than one.
C29_TempFileGoneAtMostOne ==
  /\ Cardinality(fnOut.files) <= 1
  /\ fnOut.pc \in {"loop", "returned"} => fnOut.files = {}

\* C29, amended: whenever an item starts and when execute returns, the only
\* temporary files that exist are those whose deletion failed; each of them
\* has its processing issue and no error record of its own; and besides them
\* there is at most one temporary file, that of the item the library is
\* working on.
C29_TempFileGoneUnlessUndeletable ==
  /\ fnOut.undeleted \subseteq fnOut.files
  /\ fnOut.files \ fnOut.undeleted \subseteq
       (IF fnOut.pc = "library" THEN {fnOut.i} ELSE {})
  /\ \A k \in fnOut.undeleted :
       /\ \E n \in 1..Len(fnOut.issues) : fnOut.issues[n] = <<"deleteFailed", k>>
       /\ ErrorRecords(k) = IF k \in fnOut.failed THEN 1 ELSE 0

\* execute returned after the library threw on one item, whose file was
\* deleted, and resolved on another, whose file could not be deleted.
C29_Witness ==
  /\ fnOut.pc = "returned"
  /\ \E k \in fnOut.handed \cap fnOut.failed : k \notin fnOut.files
  /\ \E k \in fnOut.undeleted \ fnOut.failed : k \in fnOut.handed

\* C30: with the attachmentFilter parameter at its default {}, no item is
\* skipped, and when execute returns every item with the binary property was
\* handed to the library or failed before it could be.
C30_UnconfiguredFilterSkipsNothing ==
  (/\ fnIn.attachmentFilter.filterMode = "unset"
   /\ ~fnIn.attachmentFilter.extensions.isString) =>
    /\ \A n \in 1..Len(fnOut.issues) : fnOut.issues[n][1] # "skipped"
    /\ fnOut.pc = "returned" =>
         \A k \in 0..(Len(fnIn.items) - 1) :
           fnIn.items[k + 1].binary = "present" => k \in fnOut.handed \cup fnOut.failed

====
